---------------------------- MODULE Spec2Model ----------------------------
(***************************************************************************)
(* Guidance-and-control core of krpc-library: the PID controller, the      *)
(* autostaging policies, the maneuver-node burn executors and the          *)
(* suicide-burn estimator, each modelled from its Python source.           *)
(*                                                                         *)
(* Units.  Python floats are modelled by scaled integers:                  *)
(*   delta-v        in tenths of m/s   (0.1 m/s  = 1)                      *)
(*   throttle       in thousandths     (1.0      = 1000, 0.005 = 5)        *)
(*   PID gains      in hundredths      (Kp = 1.0 = 100)                    *)
(* A quotient the code computes in floating point is kept as a pair        *)
(* [num, den] or compared by cross-multiplication, never rounded.          *)
(*                                                                         *)
(* The components do not share state.  Each has its own variables, its own *)
(* initial predicate and its own specification; a specification leaves the *)
(* variables of the other components parked at a fixed value.              *)
(***************************************************************************)
EXTENDS Integers, Sequences, FiniteSets

VARIABLES
    \* ---- PID (Art_Whaleys_KRPC_Demos/pid.py)
    pid,        \* the attributes of one PID object
    clock,      \* time.time()
    pidHist,    \* the last call made on the object: op, argument, I before, output;
                \*   the times of the last two update() calls, the measurement stored
                \*   before the last one, the updates at the setpoint since setpoint()
    \* ---- autostage (Art_Whaleys_KRPC_Demos/Simple_Launch_Script.py)
    current_stage,   \* vessel.control.current_stage
    max_auto_stage,  \* the MAX_AUTO_STAGE argument (launch_params.max_auto_stage)
    stageRes,        \* vessel.resources_in_decouple_stage(current_stage - 1)
    stgHist,         \* the last autostage call: stage and resources it saw
    \* ---- FlightPlan._autostager (examples/ksp-pynet/ksppynet/flight_plan.py)
    fp_stage,              \* self.vessel.control.current_stage
    chuteStages,           \* the stages s whose parts.in_stage(s) hold a parachute
    engineFuel,            \* the stages s whose parts.in_decouple_stage(s) hold an
                           \*   engine that is active and has fuel
    autostaging_disabled,  \* self.autostaging_disabled
    as_pc,                 \* where the _autostager coroutine is suspended
    fpHist,                \* the last tick of _autostager: did it stage, from where
    \* ---- burn executors (node_executor.py, Art_Whaleys_Flight_Demos/
    \*      Simple_Launch_Script.py, ksppynet/flight_plan_node.py)
    bx,          \* the entry point that is called
    b_pc,        \* "idle", "wait", "burn", "returned" or "raised"
    b_exc,       \* the exception that left the executor, or "none"
    nodes,       \* len(vessel.control.nodes)
    self_node,   \* ManeuverNode: self.node is set
    rem,         \* node.remaining_delta_v / remaining_burn()[1], tenths of m/s
    b_time,      \* the clock against the burn: "early", "lead" or "due"
    throttle,    \* vessel.control.throttle, thousandths
    mass,        \* vessel.mass
    thrust,      \* vessel.available_thrust (vessel.max_thrust)
    ap,          \* vessel.auto_pilot: engaged, target_direction set, sas_mode
    warps,       \* the number of space_center.warp_to requests made
    bHist,       \* the state at the call, and the last pass of the burn loop
    \* ---- suicide_burn_calculator (Art_Whaleys_KRPC_Demos/landing.py)
    sbc,         \* the attributes of one suicide_burn_calculator object
    sbc_ret,     \* what the last update() returned
    sbc_exc,     \* the exception that left update(), or "none"
    sbcHist,     \* the last call: was it update(), what it read, what it found
    \* ---- suicide_burn / burn_until_velocity (Art_Whaleys_KRPC_Demos/landing.py)
    sb_entry,     \* the function that is called: "suicide_burn" or "burn_until_velocity"
    sb_autowarp,  \* the autowarp argument of that call
    sb_pc,        \* "start", "enter", "wait", "burn", "between", "returned", "raised"
    sb_pass,      \* suicide_burn: the burn pass under way (1, 2); 0 for a direct call
    sb_thresh,    \* the thresh argument of burn_until_velocity, m/s
    sb_countdown, \* the local countdown of burn_until_velocity, seconds
    sb_throttle,  \* vessel.control.throttle, thousandths
    sb_warps,     \* the number of space_center.warp_to requests made
    sb_exc,       \* the exception that left the call, or "none"
    sbHist,       \* what the current burn_until_velocity call has seen and done
    \* ---- deorbit (Art_Whaleys_KRPC_Demos/landing.py)
    do_pc,        \* "idle", "loop" or "returned"
    do_target,    \* the eccentricity argument, tenths
    do_throttle,  \* vessel.control.throttle, thousandths
    do_sas,       \* ap.sas_mode
    doHist,       \* the last test of the loop: what it read, how many were made
    \* ---- final_descent (Art_Whaleys_KRPC_Demos/landing.py)
    fd_pc,        \* "idle", "loop" or "returned"
    fd_pid,       \* the attributes of p = PID(.25, .25, .025)
    fd_clock,     \* time.time() since p was created
    fd_throttle,  \* v.control.throttle as a quotient, in 1/10000
    fdHist,       \* the last test of the loop: what it read, how many were made
    \* ---- ascent (Art_Whaleys_KRPC_Demos/Simple_Launch_Script.py)
    a_pc,        \* "idle", "gravturn", "trim", "coast", "coast_trim", "circ",
                 \*   "circ_burn", "done" or "raised"
    a_floor,     \* launch_params.max_auto_stage
    a_deploy,    \* launch_params.deploy_solar
    a_stage,     \* v.control.current_stage
    a_pid,       \* thrust_controller = PID(P=.001, I=0.0001, D=0.01)
    a_clock,     \* time.time() since thrust_controller was created
    a_throttle,  \* v.control.throttle as a quotient, thousandths
    a_pitch,     \* v.auto_pilot.target_pitch, tenths of a degree
    a_sas,       \* who steers: "none", "auto_pilot" or the SAS mode
    a_warp,      \* sc.physics_warp_factor
    a_warp_to,   \* the number of space_center.warp_to requests made
    a_nodes,     \* len(v.control.nodes)
    a_solar,     \* v.control.solar_panels
    a_exc,       \* the exception that left ascent, or "none"
    aHist,       \* the last readings of apoapsis and atmosphere, whether the
                 \*   current boostAPA call has tested its loop yet, whether
                 \*   the coast has called boostAPA
    \* ---- FlightPlan sequences on the asyncio event loop (flight_plan.py)
    ready,               \* the loop's queue of callbacks ready to run, oldest first
    sleeping,            \* the tasks suspended in asyncio.sleep
    loop_stopped,        \* loop.stop() has taken effect
    sequence,            \* self.sequence, the asyncio.Queue of add_sequence
    ss_pc,               \* _start_sequence: "none" (no task), "get", "waiting"
                         \*   (suspended in sequence.get()) or "in" (a sequence)
    seq_cur,             \* the sequence _start_sequence is waiting for, or "none"
    seq_pc,              \* where the coroutine of seq_cur is suspended
    warp_pc,             \* the warp_to task: "none", "new", "yield" or "done"
    warp_target,         \* target_ut of the warp_to task
    rails_warp_factor,   \* conn.space_center.rails_warp_factor
    physics_warp_factor, \* conn.space_center.physics_warp_factor
    fl_ut,               \* conn.space_center.ut
    fl_throttle,         \* vessel.control.throttle, thousandths
    fl_engaged,          \* whether self.ap is engaged
    seqHist,             \* the names add_sequence was called with, the names of
                         \*   the sequences started, those in progress, whether
                         \*   _deorbiter has dropped the warp
    \* ---- gravturn (Art_Whaleys_KRPC_Demos/Simple_Launch_Script.py)
    gt_alt,      \* flight.mean_altitude at the last gravturn call, km
    gt_pitch,    \* the target_pitch it set, degrees times GravTurnFinish^2
    gt_prev,     \* the altitude and the pitch of the call before
    \* ---- dock (Art_Whaleys_KRPC_Demos/docking_autopilot.py)
    dk_pc,           \* "idle" before the call, "loop" inside "while True"
    dk_speed_limit,  \* the speed_limit argument, cm/s
    dk_proceed,      \* the proceed flag
    dk_offset,       \* the offset read by the last pass (right, forward, up), cm
    dk_setpoints,    \* the setpoints of the last pass (right, forward, up), cm/s
    dk_pids,         \* upPID, rightPID, forwardPID
    dk_control,      \* v.control.up, .right, .forward as quotients
    dk_clock,        \* time.time() since the PIDs were created
    dkHist,          \* the last pass: what proceedCheck returned, proceed before
    \* ---- time_transfer (Art_Whaleys_KRPC_Demos/rendezvous.py)
    tt_in,       \* the orbits and the phase_angle time_transfer was called with
    tt_pc,       \* "coarse", "fine" or "returned"
    tt_ut,       \* the local ut, modulo the time after which both orbits repeat
    tt_elapsed,  \* ut minus the ut of the call, counted up to SearchPeriod
    tt_err,      \* the last angle_error computed
    \* ---- rendezvous main (Art_Whaleys_KRPC_Demos/rendezvous.py)
    rv_pc,       \* the phase of main that runs
    rv_nodes,    \* vessel.control.nodes: the planned nodes, by name
    rvHist,      \* the nodes planned and the nodes executed so far
    \* ---- PynetHandler (examples/ksp-pynet/ksppynet/ksppynet.py)
    pn_requests, \* self.requests: the requests put and not yet taken
    pn_replies,  \* self.replies: the messages put, with who put them
    pn_fp,       \* self.fp is a FlightPlan (connected)
    pn_pc,       \* request_handler: "running", "returned" or "crashed"
    pn_loop,     \* the event loop: "running", "stopping" (stop() called),
                 \* "last" (stopping, request_handler has had its step), "stopped"
    pn_plan,     \* the flight plan D_plan started: "none", "flying" or "done"
    pn_tasks,    \* the tasks D_orbital and D_maneuver created that still run
    pnHist       \* the requests put and served, and the last dispatch

varsPID == <<pid, clock, pidHist>>
varsStage == <<current_stage, max_auto_stage, stageRes, stgHist>>
varsFP == <<fp_stage, chuteStages, engineFuel, autostaging_disabled, as_pc, fpHist>>
varsBurn == <<bx, b_pc, b_exc, nodes, self_node, rem, b_time, throttle, mass,
              thrust, ap, warps, bHist>>
varsSBC == <<sbc, sbc_ret, sbc_exc, sbcHist>>
varsSB == <<sb_entry, sb_autowarp, sb_pc, sb_pass, sb_thresh, sb_countdown,
            sb_throttle, sb_warps, sb_exc, sbHist>>

varsDO == <<do_pc, do_target, do_throttle, do_sas, doHist>>
varsFD == <<fd_pc, fd_pid, fd_clock, fd_throttle, fdHist>>
varsAscent == <<a_pc, a_floor, a_deploy, a_stage, a_pid, a_clock, a_throttle,
                a_pitch, a_sas, a_warp, a_warp_to, a_nodes, a_solar, a_exc, aHist>>

varsSeq == <<ready, sleeping, loop_stopped, sequence, ss_pc, seq_cur, seq_pc,
             warp_pc, warp_target, rails_warp_factor, physics_warp_factor, fl_ut,
             fl_throttle, fl_engaged, seqHist>>
varsGT == <<gt_alt, gt_pitch, gt_prev>>
varsTT == <<tt_in, tt_pc, tt_ut, tt_elapsed, tt_err>>
varsRV == <<rv_pc, rv_nodes, rvHist>>
varsPN == <<pn_requests, pn_replies, pn_fp, pn_pc, pn_loop, pn_plan, pn_tasks, pnHist>>
varsDock == <<dk_pc, dk_speed_limit, dk_proceed, dk_offset, dk_setpoints, dk_pids,
              dk_control, dk_clock, dkHist>>
vars == <<varsPID, varsStage, varsFP, varsBurn, varsSBC, varsSB, varsDO, varsFD,
          varsAscent, varsSeq, varsGT, varsDock, varsTT, varsRV, varsPN>>

-----------------------------------------------------------------------------
(* Bounds of the model *)

MaxMeasure == 2     \* measurements and setpoints range over -MaxMeasure..MaxMeasure
MaxClamp == 2       \* ClampI ranges over 0..MaxClamp
MaxClock == 2       \* time.time() ranges over 0..MaxClock

MaxStage == 3       \* current_stage and MAX_AUTO_STAGE range over 0..MaxStage
MaxCap == 2         \* a fuel's capacity in a stage ranges over 1..MaxCap

MaxFPStage == 3     \* the FlightPlan vessel has stages 0..MaxFPStage - 1 to fire
MaxNodes == 2       \* the vessel has 0..MaxNodes maneuver nodes
MaxDv == 8          \* remaining delta-v takes the values -1..MaxDv (tenths of
                    \*   m/s) and the three values around the 10 m/s taper
MaxMass == 6        \* vessel.mass is MaxMass or, after burning, MaxMass - 1
BaseThrust == 2     \* available thrust is 0, BaseThrust or 2 * BaseThrust
ExhaustVel == 40   \* specific_impulse * g0, in tenths of m/s
MaxEcc == 4         \* eccentricities 0..MaxEcc, tenths
MaxAlt == 2         \* target altitudes 0..MaxAlt
MaxUt == 1          \* space_center.ut is 0..MaxUt
MaxWarps == 2       \* warp_to requests counted up to MaxWarps

Measures == (0 - MaxMeasure)..MaxMeasure

-----------------------------------------------------------------------------
(* PID controller: pid.py *)

\* PID.__init__ defaults P=1.0, I=0.1, D=0.01, in hundredths
Kp == 100
Ki == 10
Kd == 1

\* PID.__init__ leaves the object in this state; ClampI is then assigned by
\* the owner (p.ClampI = 20, thrust_controller.ClampI = max_q) and stays fixed.
PIDNew(clamp, t) ==
    [ P |-> 0, I |-> 0, D |-> [num |-> 0, den |-> 1],
      SetPoint |-> 0, ClampI |-> clamp,
      LastTime |-> t, LastMeasure |-> 0,
      \* update() assigns self.lastTime (lower-case l), an attribute that
      \* __init__ never creates: has_lastTime tells whether it exists yet.
      has_lastTime |-> FALSE, lastTime |-> 0 ]

\* clamp_i without its lower branch
clamp_i_upper_only(p, i) ==
    IF i > p.ClampI THEN p.ClampI ELSE i

\* PID.clamp_i
clamp_i(p, i) ==
    IF i > p.ClampI THEN p.ClampI
    ELSE IF i < 0 - p.ClampI THEN 0 - p.ClampI
    ELSE i

\* an update that does not store the measurement
PIDUpdated_measure_lost(p, measure, now) ==
    LET diff == now - p.LastTime
        change_in_time == IF diff = 0 THEN 1 ELSE diff
        error == p.SetPoint - measure
    IN [p EXCEPT !.P = error,
                 !.I = clamp_i(p, p.I + error),
                 !.D = [num |-> measure - p.LastMeasure, den |-> change_in_time],
                 !.has_lastTime = TRUE,
                 !.lastTime = now]

\* PID.update: the object after update(measure) called at time now
PIDUpdated(p, measure, now) ==
    LET diff == now - p.LastTime
        change_in_time == IF diff = 0 THEN 1 ELSE diff
        error == p.SetPoint - measure
    IN [p EXCEPT !.P = error,
                 !.I = clamp_i(p, p.I + error),
                 !.D = [num |-> measure - p.LastMeasure, den |-> change_in_time],
                 !.LastMeasure = measure,
                 !.has_lastTime = TRUE,
                 !.lastTime = now]

\* the value update() returns, Kp*P + Ki*I - Kd*D, as a quotient (in hundredths)
PIDOutput(p) ==
    [num |-> (Kp * p.P + Ki * p.I) * p.D.den - Kd * p.D.num, den |-> p.D.den]

\* a setpoint that keeps the integral
PIDSetpointed_keeps_I(p, value) == [p EXCEPT !.SetPoint = value]

\* a setpoint that also forgets the last measurement
PIDSetpointed_forgetful(p, value) ==
    [p EXCEPT !.SetPoint = value, !.I = 0, !.LastMeasure = 0]

\* PID.setpoint
PIDSetpointed(p, value) == [p EXCEPT !.SetPoint = value, !.I = 0]

MaxSteady == 2   \* updates at the setpoint are counted up to MaxSteady

\* no call yet: upd is the time of construction; steady is -1 until setpoint()
\* is called and after an update() off the setpoint
PIDHist0 ==
    [op |-> "init", arg |-> 0, prevI |-> 0, out |-> [num |-> 0, den |-> 1],
     upd |-> 0, prevUpd |-> 0, prevMeasure |-> 0, steady |-> 0 - 1]

PIDInit ==
    /\ clock = 0
    /\ \E c \in 0..MaxClamp : pid = PIDNew(c, 0)
    /\ pidHist = PIDHist0

PIDPark ==
    /\ clock = 0
    /\ pid = PIDNew(0, 0)
    /\ pidHist = PIDHist0

-----------------------------------------------------------------------------
(* Autostaging by propellant: Simple_Launch_Script.py *)

ALL_FUELS == <<"LiquidFuel", "SolidFuel">>
FuelNames == {ALL_FUELS[i] : i \in 1..Len(ALL_FUELS)}

\* What the telemetry can report for one fuel type in one decouple stage: the
\* fuel is absent (no part holds it: capacity and amount 0), or some part
\* holds it, with a capacity above 0 and an amount within the capacity.
FuelReadings ==
    {[present |-> FALSE, max |-> 0, amount |-> 0]}
    \cup {r \in [present : {TRUE}, max : 1..MaxCap, amount : 0..MaxCap] :
             r.amount <= r.max}

\* get_resources: the resources object of the stage below the current one
StageResources == [FuelNames -> FuelReadings]

\* out_of_stages with < for <=
out_of_stages_strict(stage, MAX_AUTO_STAGE) == stage < MAX_AUTO_STAGE

\* out_of_stages
out_of_stages(stage, MAX_AUTO_STAGE) == stage <= MAX_AUTO_STAGE

\* out_of_fuel without the capacity test
out_of_fuel_any_empty(res, fueltype) == res[fueltype].amount = 0

\* out_of_fuel
out_of_fuel(res, fueltype) == res[fueltype].max > 0 /\ res[fueltype].amount = 0

\* resource.has_resource(fueltype)
has_resource(res, fueltype) == res[fueltype].present

\* The loop of autostage over ALL_FUELS from position i on, with the
\* interstage flag as it stands: the number of next_stage calls it makes.
RECURSIVE ScanFuels(_, _, _)
ScanFuels(res, i, interstage) ==
    IF i > Len(ALL_FUELS)
    THEN (IF interstage THEN 1 ELSE 0)
    ELSE IF out_of_fuel(res, ALL_FUELS[i])
         THEN 1                                   \* next_stage(vessel); return
         ELSE ScanFuels(res, i + 1, interstage /\ ~has_resource(res, ALL_FUELS[i]))

\* autostage: the number of stages one call activates
autostage(stage, MAX_AUTO_STAGE, res) ==
    IF out_of_stages(stage, MAX_AUTO_STAGE) THEN 0 ELSE ScanFuels(res, 1, TRUE)

\* vessel.control.activate_next_stage, n times: the stage counter steps down
\* and stays at 0 once the last stage has fired
RECURSIVE Activated(_, _)
Activated(stage, n) ==
    IF n = 0 \/ stage = 0 THEN stage ELSE Activated(stage - 1, n - 1)

StageInit ==
    /\ current_stage \in 0..MaxStage
    /\ max_auto_stage \in 0..MaxStage
    /\ stageRes \in StageResources
    /\ stgHist = [called |-> FALSE, start |-> current_stage,
                  before |-> current_stage, seen |-> stageRes]

StagePark ==
    /\ current_stage = 0
    /\ max_auto_stage = 0
    /\ stageRes = [f \in FuelNames |-> [present |-> FALSE, max |-> 0, amount |-> 0]]
    /\ stgHist = [called |-> FALSE, start |-> 0, before |-> 0, seen |-> stageRes]

-----------------------------------------------------------------------------
(* Autostaging by part inspection: flight_plan.py, FlightPlan._autostager *)

\* Stage numbers: current_stage counts down from the number of stages as
\* stages fire; parts.in_stage(s) are the parts stage s activates, and
\* parts.in_decouple_stage(s) the parts stage s drops (-1: never dropped).
FPStages == 0..(MaxFPStage - 1)
FPDecoupleStages == (0 - 1)..(MaxFPStage - 1)

\* for part in parts.in_stage(stage): if part.parachute
chutes_in_stage(stage) == stage \in chuteStages

\* a fuel check that inspects the parts stage itself drops
fuel_in_stage_current(stage) == stage \in engineFuel

\* the loop over parts.in_decouple_stage(stage - 1) setting fuel_in_stage
fuel_in_stage(stage) == (stage - 1) \in engineFuel

\* vessel.control.activate_next_stage
activate_next_stage(stage) == IF stage > 0 THEN stage - 1 ELSE 0

\* a pass that does not look at autostaging_disabled
autostager_pass_unchecked(disabled, stage) ==
    IF chutes_in_stage(stage) THEN "done"
    ELSE IF ~fuel_in_stage(stage) THEN "staged"
    ELSE "hold"

\* One pass of the body of _autostager's loop, from the yield to the next
\* suspension: "done" (returned), "staged" or "hold" (sleeps 0.2 s).
autostager_pass(disabled, stage) ==
    IF disabled THEN "done"
    ELSE IF chutes_in_stage(stage) THEN "done"
    ELSE IF ~fuel_in_stage(stage) THEN "staged"
    ELSE "hold"

\* nothing ticked yet
FPHist0(stage) ==
    [ticked |-> FALSE, staged |-> FALSE, from |-> stage, fuel |-> FALSE,
     outcome |-> "none", disabled |-> FALSE]

FPInit ==
    /\ fp_stage \in 0..MaxFPStage
    /\ chuteStages \in SUBSET FPStages
    /\ engineFuel \in SUBSET FPDecoupleStages
    /\ autostaging_disabled = FALSE
    /\ as_pc = "yield"
    /\ fpHist = FPHist0(fp_stage)

FPPark ==
    /\ fp_stage = 0
    /\ chuteStages = {}
    /\ engineFuel = {}
    /\ autostaging_disabled = FALSE
    /\ as_pc = "yield"
    /\ fpHist = FPHist0(0)

-----------------------------------------------------------------------------
(* Burn executors: execute_next_node (node_executor.py), executeNextNode   *)
(* (Art_Whaleys_Flight_Demos/Simple_Launch_Script.py), ManeuverNode.execute *)
(* (flight_plan_node.py)                                                    *)

Executors == {"execute_next_node", "executeNextNode", "ManeuverNode"}

\* while node.remaining_delta_v > .1
Tolerance == 1
\* if node.remaining_delta_v < 10
TaperDv == 100
\* if remaining_burn_time > 2  /  t = 2
TaperTime == 2
\* max(0.005, throttle)
MinThrottle == 5

DvValues == ((0 - 1)..MaxDv) \cup {TaperDv - 1, TaperDv, TaperDv + 1}
MassValues == (MaxMass - 1)..MaxMass
ThrustValues == {0, BaseThrust, 2 * BaseThrust}

\* node.remaining_delta_v is the length of the remaining burn vector, never
\* negative; remaining_burn()[1] is its component along the node's axis.
DvOf(executor) ==
    CASE executor = "ManeuverNode" -> {d \in DvValues : d <= MaxDv}
      [] executor = "executeNextNode" -> {d \in DvValues : d >= 0}
      [] OTHER -> {d \in DvValues : d >= 0 /\ d <= MaxDv}

Max(a, b) == IF a >= b THEN a ELSE b

\* thrust_controller with the two middle steps exchanged
thrust_controller_swapped(m, max_thrust, deltaV) ==
    IF 3 * deltaV * m < 10 * max_thrust THEN 50
    ELSE IF 2 * deltaV * m < 10 * max_thrust THEN 250
    ELSE IF deltaV * m < 10 * max_thrust THEN 100
    ELSE 1000

\* thrust_controller: TWR = max_thrust / mass; deltaV < TWR / 3 and so on are
\* compared by cross-multiplication (deltaV is in tenths, hence the 10)
thrust_controller(m, max_thrust, deltaV) ==
    IF 3 * deltaV * m < 10 * max_thrust THEN 50
    ELSE IF 2 * deltaV * m < 10 * max_thrust THEN 100
    ELSE IF deltaV * m < 10 * max_thrust THEN 250
    ELSE 1000

\* executeNextNode: 5% below 10 m/s, full power otherwise
taper_throttle(deltaV) == IF deltaV < TaperDv THEN 50 ELSE 1000

\* the burn loop's condition with the tolerance at 0
node_burn_continues_to_zero(deltaV) == deltaV > 0

\* while node.remaining_delta_v > .1 (execute_next_node and executeNextNode)
node_burn_continues(deltaV) == deltaV > Tolerance

\* burn_time = (m - m / exp(dv / (isp * G))) / (F / (isp * G)): the last
\* division raises ZeroDivisionError when F is 0
burn_time_raises(F) == F = 0

\* math.exp(dv / Isp) in thousandths, by its series to the third order:
\* 1 at 0, below 1 for dv < 0, increasing in dv
ExpMilli(dv) ==
    1000 + (1000 * dv) \div ExhaustVel
         + (1000 * dv * dv) \div (2 * ExhaustVel * ExhaustVel)
         + (1000 * dv * dv * dv) \div (6 * ExhaustVel * ExhaustVel * ExhaustVel)

\* ManeuverNode.execute: remaining_burn_time = (m0 - m1) / flow_rate with
\* m1 = m0 / exp(dv / Isp) and flow_rate = F / Isp, compared with 2 s
\* by cross-multiplication (F > 0)
mn_full_throttle(m0, F, dv) ==
    m0 * (ExpMilli(dv) - 1000) * ExhaustVel > TaperTime * 10 * ExpMilli(dv) * F

\* ManeuverNode.execute: F = ((m0 - m1) / t) * Isp; throttle = F / available_thrust,
\* floored at 0.005
mn_taper_throttle(m0, F, dv) ==
    Max(MinThrottle,
        (1000 * m0 * (ExpMilli(dv) - 1000) * ExhaustVel)
            \div (TaperTime * 10 * ExpMilli(dv) * F))

\* ManeuverNode.execute, one pass of the loop once the burn is due: "skip"
\* (ZeroDivisionError caught, continue), "burn" with the throttle commanded,
\* or "complete"
mn_pass(m0, F, dv) ==
    IF F = 0 THEN [kind |-> "skip", throttle |-> 0]
    ELSE IF mn_full_throttle(m0, F, dv) THEN [kind |-> "burn", throttle |-> 1000]
    ELSE IF dv > 0 THEN [kind |-> "burn", throttle |-> mn_taper_throttle(m0, F, dv)]
    ELSE [kind |-> "complete", throttle |-> 0]

\* the end of a burn that forgets node.remove()
burn_finished_node_kept(n) == [throttle |-> 0, nodes |-> n]

\* Finish Up: vessel.control.throttle = 0.0; node.remove()
burn_finished(n) == [throttle |-> 0, nodes |-> n - 1]

APIdle == [engaged |-> FALSE, targeted |-> FALSE, sas_mode |-> "stability_assist"]

BurnHist0 ==
    [called |-> FALSE, hadNode |-> FALSE, thrust0 |-> 0, throttle0 |-> 0,
     nodes0 |-> 0, ap0 |-> APIdle, warps0 |-> 0,
     passes |-> 0, seq |-> 0, dv |-> 0, thrustAt |-> 0, steppedDown |-> FALSE]

\* the node an entry point would execute is there
HasNode == IF bx = "ManeuverNode" THEN self_node ELSE nodes > 0

BurnInit ==
    /\ bx \in Executors
    /\ b_pc = "idle"
    /\ b_exc = "none"
    /\ nodes \in 0..MaxNodes
    /\ self_node \in (IF bx = "ManeuverNode" /\ nodes > 0 THEN BOOLEAN ELSE {FALSE})
    /\ rem \in (IF nodes > 0 THEN {d \in DvOf(bx) : d > 0} ELSE {0})
    /\ b_time \in {"early", "lead", "due"}
    /\ throttle \in {0, 1000}
    /\ mass = MaxMass
    /\ thrust \in ThrustValues
    /\ ap = APIdle
    /\ warps = 0
    /\ bHist = BurnHist0

BurnPark ==
    /\ bx = "execute_next_node"
    /\ b_pc = "idle"
    /\ b_exc = "none"
    /\ nodes = 0
    /\ self_node = FALSE
    /\ rem = 0
    /\ b_time = "early"
    /\ throttle = 0
    /\ mass = MaxMass
    /\ thrust = 0
    /\ ap = APIdle
    /\ warps = 0
    /\ bHist = BurnHist0

-----------------------------------------------------------------------------
(* Frames: what a step of one component leaves alone *)

-----------------------------------------------------------------------------
(* suicide_burn_calculator (landing.py).  Times are in seconds, speeds in m/s,
   accelerations in m/s^2; the inputs are chosen so that every quotient and
   square root of update() is exact. *)

INF == 1000000   \* np.inf: above every finite value of the model

Periapses == {0 - 1, 0, 1}    \* orbit.periapsis_altitude
Angles == {0, 90}             \* angle_between(v1, v2), degrees
Accels == {<<5, 3>>, <<5, 4>>, <<3, 5>>}  \* (T, g): thrust acceleration, gravity
Speeds == {24, 48}            \* flight(rf).speed
FallTimes == {12, 24}         \* ut_at_true_anomaly(TA) - ut
AltValues == 0..MaxAlt

\* math.sin of the two angles
Sine(angle) == IF angle = 90 THEN 1 ELSE 0

\* the exact quotient a / b, b # 0
Quot(a, b) == IF b < 0 THEN 0 - (a \div (0 - b)) ELSE a \div b

\* math.sqrt(x) for a perfect square x >= 0
Sqrt(x) == CHOOSE r \in 0..x : r * r = x

\* (2 * g * sine) * (2 * g * sine) + 4 * (T*T - g*g), the argument of math.sqrt
decel_radicand(T, g, sine) == (2 * g * sine) * (2 * g * sine) + 4 * (T * T - g * g)

\* suicide_burn_calculator.__init__(conn, v, alt)
SBCNew(alt) ==
    [burn_time |-> INF, burn_duration |-> INF, ground_track |-> INF,
     effective_decel |-> INF, radius |-> INF, angle_from_horizontal |-> INF,
     impact_time |-> INF, alt |-> alt,
     has_decel_time |-> FALSE, decel_time |-> 0]

\* the "not on a landing trajectory" branch that forgets the ground track
sbc_not_landing_stale_track(c) ==
    [c EXCEPT !.burn_time = INF, !.burn_duration = INF,
              !.effective_decel = INF, !.angle_from_horizontal = INF,
              !.impact_time = INF]

\* update(), periapsis_altitude > 0: "We're not on a landing trajectory yet."
sbc_not_landing(c) ==
    [c EXCEPT !.burn_time = INF, !.burn_duration = INF, !.ground_track = INF,
              !.effective_decel = INF, !.angle_from_horizontal = INF,
              !.impact_time = INF]

\* update(), periapsis_altitude <= 0, up to the math.sqrt that raises
sbc_landing_raised(c, angle) == [c EXCEPT !.angle_from_horizontal = angle]

\* update(), periapsis_altitude <= 0, to the end
sbc_landing(c, angle, T, g, speed, impact, ut) ==
    LET sine == Sine(angle)
        decel == (Sqrt(decel_radicand(T, g, sine)) - 2 * g * sine) \div 2
        dtime == Quot(speed, decel)
        btime == impact - Quot(dtime, 2)
    IN [c EXCEPT !.angle_from_horizontal = angle,
                 !.effective_decel = decel,
                 !.has_decel_time = TRUE,
                 !.decel_time = dtime,
                 !.impact_time = impact,
                 !.burn_time = btime,
                 !.ground_track = (btime - ut) * speed + Quot(speed * dtime, 2)]

SBCHist0 == [fresh |-> FALSE, peri |-> 0, alt0 |-> 0, had |-> FALSE]

SBCInit ==
    /\ sbc \in {SBCNew(a) : a \in AltValues}
    /\ sbc_ret = 0
    /\ sbc_exc = "none"
    /\ sbcHist = SBCHist0

SBCPark ==
    /\ sbc = SBCNew(0)
    /\ sbc_ret = 0
    /\ sbc_exc = "none"
    /\ sbcHist = SBCHist0

-----------------------------------------------------------------------------
(* suicide_burn and burn_until_velocity (landing.py).  Vertical speeds are in
   m/s, the throttle in thousandths. *)

Thresh1 == 10    \* burn_until_velocity(conn, vessel, telem, 10, computer, True)
Thresh2 == 5     \* burn_until_velocity(conn, vessel, telem, 5, computer, True)
WarpLead == 10   \* warp to 10 seconds before burn

\* telem.vertical_speed: below, at and above each threshold, and climbing
VertSpeeds == {0 - (Thresh1 + 1), 0 - Thresh1, 0 - Thresh2, 0 - (Thresh2 - 1),
               Thresh1 + 1}

\* computer.update() with everything it reads: the object afterwards, the
\* value returned, and the exception raised instead (math.sqrt of a negative)
sbc_update(c, peri, angle, a, speed, fall, ut) ==
    IF peri > 0
    THEN [c |-> sbc_not_landing(c), ret |-> INF, exc |-> "none"]
    ELSE IF decel_radicand(a[1], a[2], Sine(angle)) < 0
    THEN [c |-> sbc_landing_raised(c, angle), ret |-> 0, exc |-> "ValueError"]
    ELSE [c |-> sbc_landing(c, angle, a[1], a[2], speed, ut + fall, ut),
          ret |-> sbc_landing(c, angle, a[1], a[2], speed, ut + fall, ut).burn_time - ut,
          exc |-> "none"]

\* the autowarp argument burn_until_velocity receives: suicide_burn passes
\* the literal True, not its own argument
buv_autowarp(entry, autowarp) == IF entry = "suicide_burn" THEN TRUE ELSE autowarp

\* if autowarp and (countdown > thresh)
buv_warps(autowarp, countdown, thresh) == autowarp /\ countdown > thresh

\* conn.space_center.ut + countdown - 10
buv_warp_target(ut, countdown) ==
    IF countdown = INF THEN INF ELSE ut + countdown - WarpLead

\* the wait loop leaving while the countdown is still above WarpLead
buv_wait_continues_early(countdown) == countdown > WarpLead

\* while countdown > 0.0
buv_wait_continues(countdown) == countdown > 0

\* the burn loop with the threshold doubled
buv_burn_continues_late(vs, thresh) == vs < 0 - 2 * thresh

\* while telem.vertical_speed < (-1 * thresh)
buv_burn_continues(vs, thresh) == vs < 0 - thresh

\* the throttle with the emergency 5% already used at a countdown of 0
buv_burn_throttle_eager(countdown) == IF countdown <= 0 THEN 1000 ELSE 950

\* vessel.control.throttle = .95; if countdown < 0.0: vessel.control.throttle = 1.0
buv_burn_throttle(countdown) == IF countdown < 0 THEN 1000 ELSE 950

\* the throttle values one pass of the burn loop commands, in order
buv_burn_commands(countdown) ==
    IF countdown < 0 THEN {950, 1000} ELSE {950}

SBHist0 ==
    [inCall |-> FALSE, allInf |-> TRUE, sawNonPos |-> FALSE, cmds |-> {},
     warped |-> FALSE, warpTarget |-> 0,
     exited |-> FALSE, exitVs |-> 0, altReset |-> FALSE]

\* the history after an update() of the current call has returned ret
SBUpdated(h, ret) ==
    [h EXCEPT !.allInf = @ /\ ret = INF,
              !.sawNonPos = @ \/ ret <= 0]

SBInit ==
    /\ sb_entry \in {"suicide_burn", "burn_until_velocity"}
    /\ sb_autowarp \in BOOLEAN
    /\ sb_pc = IF sb_entry = "suicide_burn" THEN "start" ELSE "enter"
    /\ sb_pass = IF sb_entry = "suicide_burn" THEN 1 ELSE 0
    /\ sb_thresh \in (IF sb_entry = "suicide_burn" THEN {Thresh1} ELSE {Thresh1, Thresh2})
    /\ sb_countdown = 0
    /\ sb_throttle \in {0, 1000}
    /\ sb_warps = 0
    /\ sb_exc = "none"
    /\ sbHist = SBHist0

SBPark ==
    /\ sb_entry = "suicide_burn"
    /\ sb_autowarp = TRUE
    /\ sb_pc = "start"
    /\ sb_pass = 1
    /\ sb_thresh = Thresh1
    /\ sb_countdown = 0
    /\ sb_throttle = 0
    /\ sb_warps = 0
    /\ sb_exc = "none"
    /\ sbHist = SBHist0

-----------------------------------------------------------------------------
(* deorbit (landing.py).  Eccentricities are in tenths. *)

EccValues == 0..MaxEcc     \* vessel.orbit.eccentricity

\* the loop condition with "and" for "or"
deorbit_continues_either(ecc, target, peri) == ecc < target /\ peri > 0

\* while (vessel.orbit.eccentricity < eccentricity or
\*        vessel.orbit.periapsis_altitude > 0)
deorbit_continues(ecc, target, peri) == ecc < target \/ peri > 0

DOHist0 == [tests |-> 0, ecc |-> 0, peri |-> 0]

DOInit ==
    /\ do_pc = "idle"
    /\ do_target \in 1..MaxEcc
    /\ do_throttle \in {0, 1000}
    /\ do_sas = "stability_assist"
    /\ doHist = DOHist0

DOPark ==
    /\ do_pc = "idle"
    /\ do_target = 1
    /\ do_throttle = 0
    /\ do_sas = "stability_assist"
    /\ doHist = DOHist0

-----------------------------------------------------------------------------
(* final_descent (landing.py).  Altitudes are in m, speeds and the setpoint in
   tenths of m/s, the gains in thousandths. *)

FDKp == 250        \* PID(.25, .25, .025)
FDKi == 250
FDKd == 25
FDClampI == 10     \* self.ClampI = 1.0
MaxDescent == 150  \* if safe_descent < -15.0: safe_descent = -15.0

Situations == {"flying", "landed", "splashed"}   \* v.situation
FDAlts == {0, 1, MaxDescent - 1, MaxDescent, MaxDescent + 1, 2 * MaxDescent}
FDSpeeds == {0 - MaxDescent, 0 - 10, 0}           \* telem.vertical_speed

\* the descent rate without its cap
safe_descent_uncapped(alt) == 0 - alt

\* safe_descent = telem.surface_altitude / -10, no lower than -15.0
safe_descent(alt) == IF 0 - alt < 0 - MaxDescent THEN 0 - MaxDescent ELSE 0 - alt

\* while v.situation is not v.situation.landed
fd_continues(situation) == situation # "landed"

\* what p.update returns with the gains of final_descent, as a quotient
fd_output(p) ==
    [num |-> (FDKp * p.P + FDKi * p.I) * p.D.den - FDKd * p.D.num, den |-> p.D.den]

FDHist0 == [tests |-> 0, situation |-> "flying", alt |-> 0]

FDInit ==
    /\ fd_pc = "idle"
    /\ fd_pid = PIDNew(FDClampI, 0)
    /\ fd_clock = 0
    /\ fd_throttle \in {[num |-> 0, den |-> 1], [num |-> 10000, den |-> 1]}
    /\ fdHist = FDHist0

FDPark ==
    /\ fd_pc = "idle"
    /\ fd_pid = PIDNew(FDClampI, 0)
    /\ fd_clock = 0
    /\ fd_throttle = [num |-> 0, den |-> 1]
    /\ fdHist = FDHist0

-----------------------------------------------------------------------------
(* ascent (Simple_Launch_Script.py).  Altitudes are in km, the dynamic pressure
   in kPa, the throttle in thousandths, the pitch in tenths of a degree. *)

OrbitAlt == 100         \* orbit_alt = 100000
GravTurnFinish == 55    \* grav_turn_finish = 55000
MaxQ == 20              \* max_q = 20000
MAX_PHYSICS_WARP == 3
TrimThrottle == 200     \* vessel.control.throttle=.2
\* PID(P=.001, I=0.0001, D=0.01) on a pressure in Pa: thousandths of throttle
\* per kPa
QKp == 1000
QKi == 100
QKd == 10000

ApoValues == {OrbitAlt - 6, OrbitAlt - 5, OrbitAlt - 1, OrbitAlt, OrbitAlt + 1}
QValues == {0, MaxQ, 2 * MaxQ}                      \* flight.dynamic_pressure
TurnAlts == {0, 11, GravTurnFinish, GravTurnFinish + 11}   \* flight.mean_altitude

Throttle(n) == [num |-> n, den |-> 1]

\* apoapsis_way_low: apoapsis_altitude < ORBIT_ALT * .95
apoapsis_way_low(apo, ORBIT_ALT) == apo * 100 < ORBIT_ALT * 95

\* apoapsis_little_low with the 95% bound of apoapsis_way_low
apoapsis_little_low_95(apo, ORBIT_ALT) == apo * 100 < ORBIT_ALT * 95

\* apoapsis_little_low: apoapsis_altitude < ORBIT_ALT
apoapsis_little_low(apo, ORBIT_ALT) == apo < ORBIT_ALT

\* the pitch of gravturn with (progress - 1) for (progress - 2)
gravturn_scaled_flat(alt) ==
    90 * GravTurnFinish * GravTurnFinish + 90 * alt * (alt - GravTurnFinish)

\* gravturn: 90 - (-90 * progress * (progress - 2)) with progress =
\* mean_altitude / grav_turn_finish, exactly, times grav_turn_finish squared
gravturn_scaled(alt) ==
    90 * GravTurnFinish * GravTurnFinish + 90 * alt * (alt - 2 * GravTurnFinish)

\* gravturn: the target_pitch it sets, in tenths of a degree
gravturn(alt) ==
    (10 * gravturn_scaled(alt)) \div (GravTurnFinish * GravTurnFinish)

MaxTurnAlt == 66     \* the highest mean_altitude gravturn is called at, km

GTInit ==
    /\ gt_alt = 0
    /\ gt_pitch = gravturn_scaled(0)
    /\ gt_prev = [alt |-> 0, pitch |-> gravturn_scaled(0)]

GTPark == GTInit

\* limitq: what controller.update(flight.dynamic_pressure) returns
limitq(p) ==
    [num |-> (QKp * p.P + QKi * p.I) * p.D.den - QKd * p.D.num, den |-> p.D.den]

\* one pass of the coast loop that tests the apoapsis before the atmosphere
coast_next_trim_first(atmo, low) ==
    IF low THEN "coast_trim" ELSE IF atmo THEN "coast" ELSE "circ"

\* one test of the coast loop and the test in its body: what ascent does next
coast_next(atmo, low) ==
    IF ~atmo THEN "circ" ELSE IF low THEN "coast_trim" ELSE "coast"

\* the warp factor left as it is before a burn
warp_for_burn_kept(w) == w

\* sc.physics_warp_factor = 0, before boostAPA and before the circularization
warp_for_burn(w) == 0

\* the order of the phases of ascent
PhaseRank(pc) ==
    CASE pc = "idle" -> 0
      [] pc = "gravturn" -> 1
      [] pc \in {"trim", "coast_trim"} -> 2
      [] pc = "coast" -> 3
      [] pc \in {"circ", "circ_burn"} -> 4
      [] pc = "done" -> 5
      [] OTHER -> 6

AHist0 == [apo |-> 0, atmo |-> TRUE, trimTests |-> 0, retrimmed |-> FALSE]

AscentInit ==
    /\ a_pc = "idle"
    /\ a_floor \in {0, 1}
    /\ a_deploy \in BOOLEAN
    /\ a_stage \in 0..MaxStage
    /\ a_pid = PIDNew(1, 0)
    /\ a_clock = 0
    /\ a_throttle = Throttle(0)
    /\ a_pitch = 900
    /\ a_sas = "none"
    /\ a_warp \in {0, MAX_PHYSICS_WARP}
    /\ a_warp_to = 0
    /\ a_nodes = 0
    /\ a_solar = FALSE
    /\ a_exc = "none"
    /\ aHist = AHist0

AscentPark ==
    /\ a_pc = "idle"
    /\ a_floor = 0
    /\ a_deploy = FALSE
    /\ a_stage = 0
    /\ a_pid = PIDNew(1, 0)
    /\ a_clock = 0
    /\ a_throttle = Throttle(0)
    /\ a_pitch = 900
    /\ a_sas = "none"
    /\ a_warp = 0
    /\ a_warp_to = 0
    /\ a_nodes = 0
    /\ a_solar = FALSE
    /\ a_exc = "none"
    /\ aHist = AHist0

-----------------------------------------------------------------------------
(* FlightPlan sequences (flight_plan.py).  The asyncio event loop runs the
   callbacks of its ready queue oldest first, each to the next suspension of
   its task: a bare yield puts the task back at the end of the queue,
   asyncio.sleep takes it off the queue until its timer fires. *)

MaxSeqs == 2          \* add_sequence calls
MaxFlightUt == 2      \* ticks of game time
LeadTime == 5         \* lead_time=5
OrigWarpFactor == 4   \* orig_warp_factor=4
HalfThrottle == 500   \* self.vessel.control.throttle = 0.5
FullThrottle == 1000  \* self.vessel.control.throttle = 1

\* the keys of self.seq_defs
SeqNames == {"pre_launch", "launch", "deorbit", "orbit", "land", "quit"}

\* vessel.orbit.time_to_periapsis when the warp_to task is created
TimesToPeriapsis == {LeadTime - 1, LeadTime + 1}

\* space_center.maximum_rails_warp_factor where can_rails_warp_at(4) is false
MaxRailsFactors == {0, OrigWarpFactor - 1}

PutTask(name) == [task |-> "put", name |-> name]
SSTask == [task |-> "ss", name |-> "none"]
WarpTask == [task |-> "warp", name |-> "none"]
StopTask == [task |-> "stop", name |-> "none"]

\* the task that was running goes back to the end of the ready queue
Yielded(q, t) == Append(Tail(q), t)

\* FlightPlan.warp_to: the factor one pass of its loop leaves in
\* rails_warp_factor
warp_to_factor(current, can_warp, maximum) ==
    IF current # OrigWarpFactor
    THEN IF ~can_warp THEN maximum ELSE OrigWarpFactor
    ELSE current

\* FlightPlan.warp_to: if ut > target_ut - lead_time
warp_to_finished(ut, target_ut) == ut > target_ut - LeadTime

\* FlightPlan.drop_warp
drop_warp == [rails |-> 0, physics |-> 0]

\* a _start_sequence that does not wait for the sequence it started
start_sequence_next_eager(cur) == "get"

\* _start_sequence: what the task does when the loop runs it
start_sequence_next(cur) == IF cur = "none" THEN "get" ELSE "resume"

\* _deorbiter's loop "while not chutes", also the stages _lander's inner loop
\* fires before its last: the stage whose next stage holds a parachute, or -1
\* when no stage below holds one and the loop never ends
\* a destaging loop that looks for the parachute in the current stage, not in
\* the next one
RECURSIVE stage_above_chute_late(_)
stage_above_chute_late(stage) ==
    IF stage \in chuteStages THEN stage
    ELSE IF stage = 0 THEN 0 - 1
    ELSE stage_above_chute_late(activate_next_stage(stage))

RECURSIVE stage_above_chute(_)
stage_above_chute(stage) ==
    IF (stage - 1) \in chuteStages THEN stage
    ELSE IF stage = 0 THEN 0 - 1
    ELSE stage_above_chute(activate_next_stage(stage))

SeqHist0 ==
    [added |-> <<>>, started |-> <<>>, running |-> {}, dropped |-> FALSE,
     fired |-> {}, ended |-> {}]

SeqFPInit ==
    /\ fp_stage \in 1..MaxFPStage
    /\ chuteStages \in {{}, {0}}
    /\ engineFuel = {}
    /\ autostaging_disabled = FALSE
    /\ as_pc = "yield"
    /\ fpHist = FPHist0(fp_stage)

SeqInit ==
    /\ ready = <<>>
    /\ sleeping = {}
    /\ loop_stopped = FALSE
    /\ sequence = <<>>
    /\ ss_pc = "none"
    /\ seq_cur = "none"
    /\ seq_pc = "none"
    /\ warp_pc = "none"
    /\ warp_target = 0
    /\ rails_warp_factor = 0
    /\ physics_warp_factor = 0
    /\ fl_ut = 0
    /\ fl_throttle = 0
    /\ fl_engaged = FALSE
    /\ seqHist = SeqHist0

SeqPark == SeqInit

-----------------------------------------------------------------------------
(* dock (docking_autopilot.py).  Distances are in cm, speeds in cm/s. *)

Standoff == 1000        \* 10 - offset.forward
LineUpTolerance == 10   \* .1
ProceedSpeed == 20      \* tvforward = -.2
DockClampI == 100       \* self.ClampI = 1.0
FarOffset == 150        \* an offset beyond every speed limit

\* the gains of PID(.75,.25,1) and PID(.75,.2,.5), in hundredths
DockGains ==
    [up |-> [Kp |-> 75, Ki |-> 25, Kd |-> 100],
     right |-> [Kp |-> 75, Ki |-> 25, Kd |-> 100],
     forward |-> [Kp |-> 75, Ki |-> 20, Kd |-> 50]]

Axes == {"right", "forward", "up"}

Min(a, b) == IF a < b THEN a ELSE b
Fabs(x) == IF x < 0 THEN 0 - x ELSE x

SpeedLimits == {0 - 50, 0, 50, 100}
LateralOffsets ==
    {0 - FarOffset, 1 - LineUpTolerance, LineUpTolerance - 1, LineUpTolerance,
     FarOffset}
ForwardOffsets ==
    {Standoff - FarOffset, Standoff - LineUpTolerance,
     Standoff - LineUpTolerance + 1, Standoff + LineUpTolerance - 1,
     Standoff + FarOffset}
\* the offsets read: one axis off a lined-up position, or every axis far off
LinedUp == [right |-> LineUpTolerance - 1, forward |-> Standoff + LineUpTolerance - 1,
            up |-> LineUpTolerance - 1]
DockOffsets ==
    {o \in [right : LateralOffsets, forward : ForwardOffsets, up : LateralOffsets] :
        \/ Cardinality({a \in {"right", "forward", "up"} : o[a] # LinedUp[a]}) <= 1
        \/ /\ Fabs(o.right) = FarOffset /\ Fabs(o.up) = FarOffset
           /\ Fabs(Standoff - o.forward) = FarOffset}
DockVelocities ==
    {[right |-> 0, forward |-> 0, up |-> 0],
     [right |-> ProceedSpeed, forward |-> 0 - ProceedSpeed, up |-> 10],
     [right |-> 0 - ProceedSpeed, forward |-> ProceedSpeed, up |-> 0 - 10]}

\* getSetpoints with the forward setpoint not clamped
getSetpoints_forward_free(offset, proceed, speed_limit) ==
    [up |-> Max(Min(offset.up, speed_limit), 0 - speed_limit),
     right |-> (0 - 1) * Max(Min(offset.right, speed_limit), 0 - speed_limit),
     forward |-> IF proceed THEN 0 - ProceedSpeed ELSE Standoff - offset.forward]

\* getSetpoints(offset, proceed, speed_limit)
getSetpoints(offset, proceed, speed_limit) ==
    [up |-> Max(Min(offset.up, speed_limit), 0 - speed_limit),
     right |-> (0 - 1) * Max(Min(offset.right, speed_limit), 0 - speed_limit),
     forward |-> IF proceed THEN 0 - ProceedSpeed
                 ELSE Max(Min(Standoff - offset.forward, speed_limit),
                          0 - speed_limit)]

\* a proceed flag that follows the last proceedCheck
proceed_next_unlatched(proceed, check) == check

\* if proceedCheck(offset): proceed = True
proceed_next(proceed, check) == proceed \/ check

\* proceedCheck(offset)
proceedCheck(offset) ==
    /\ offset.up < LineUpTolerance
    /\ offset.right < LineUpTolerance
    /\ Fabs(Standoff - offset.forward) < LineUpTolerance

\* -pid.update(...) as dock writes it to v.control: minus
\* Kp * P + Ki * I - Kd * D, as a quotient (in ten-thousandths)
dock_control(p, k) ==
    [num |-> 0 - ((k.Kp * p.P + k.Ki * p.I) * p.D.den - k.Kd * p.D.num),
     den |-> p.D.den]

DockHist0 == [ticked |-> FALSE, check |-> FALSE, wasProceed |-> FALSE]

DockInit ==
    /\ dk_pc = "idle"
    /\ dk_speed_limit \in SpeedLimits
    /\ dk_proceed = FALSE
    /\ dk_offset = [right |-> 0, forward |-> 0, up |-> 0]
    /\ dk_setpoints = [right |-> 0, forward |-> 0, up |-> 0]
    /\ dk_pids = [a \in Axes |-> PIDNew(DockClampI, 0)]
    /\ dk_control = [a \in Axes |-> [num |-> 0, den |-> 1]]
    /\ dk_clock = 0
    /\ dkHist = DockHist0

DockPark ==
    /\ dk_pc = "idle"
    /\ dk_speed_limit = 0
    /\ dk_proceed = FALSE
    /\ dk_offset = [right |-> 0, forward |-> 0, up |-> 0]
    /\ dk_setpoints = [right |-> 0, forward |-> 0, up |-> 0]
    /\ dk_pids = [a \in Axes |-> PIDNew(DockClampI, 0)]
    /\ dk_control = [a \in Axes |-> [num |-> 0, den |-> 1]]
    /\ dk_clock = 0
    /\ dkHist = DockHist0

-----------------------------------------------------------------------------
(* time_transfer (rendezvous.py).  Angles are in units of 2*pi/6000 (1.047
   mrad), so that a revolution and its half are whole numbers; angular rates
   are whole units per second, so that both orbits repeat after SearchPeriod
   seconds and ut can be kept modulo SearchPeriod. *)

TwoPi == 6000
SearchPeriod == TwoPi
CoarseStep == 10     \* ut += 10
FineStep == 1        \* ut += 1
\* angle_error < .01 and angle_error < .001: .01 rad is 9.55 units and .001 rad
\* is 0.955 units, and the errors are whole units
CoarseTolerance == 9
FineTolerance == 0

\* mean motions (vessel, target) in units per second: periods of 2000 s and
\* 6000 s, and of 3000 s and 6000 s; with each the phase angle get_phase_angle
\* returns for orbits of these periods, to the nearest unit
TransferCases ==
    {[nv |-> 3, nt |-> 1, phase_angle |-> 4089],
     [nv |-> 2, nt |-> 1, phase_angle |-> 3793]}

\* lan + arg_p + mean anomaly at the ut of the call, of the vessel (v0) and of
\* the target (t0)
StartAngles ==
    {[v0 |-> 1, t0 |-> 1], [v0 |-> 1, t0 |-> 701], [v0 |-> 1, t0 |-> 702],
     [v0 |-> 1, t0 |-> 720], [v0 |-> 1001, t0 |-> 1789]}

\* clamp_2pi(x) for x > 0: 2*pi is taken off while x > 2*pi
clamp_2pi(x) == IF x > TwoPi THEN ((x - 1) % TwoPi) + 1 ELSE x

\* orbital_progress(vessel, ut) for an orbit at angle0 at ut = 0 with mean
\* motion n
orbital_progress(angle0, n, ut) == clamp_2pi(angle0 + n * ut)

\* angle_error = math.fabs(t_pos - (v_pos - math.pi) - phase_angle)
angle_error(in, ut) ==
    Fabs(orbital_progress(in.t0, in.nt, ut)
           - (orbital_progress(in.v0, in.nv, ut) - TwoPi \div 2) - in.phase_angle)

\* ut advanced by step seconds, modulo SearchPeriod (the call is made at a
\* ut that is a multiple of SearchPeriod)
UtPlus(ut, step) == (ut + step + SearchPeriod) % SearchPeriod

\* the count of elapsed seconds, which stops at SearchPeriod
ElapsedPlus(e, step) == IF e + step > SearchPeriod THEN SearchPeriod ELSE e + step

TTInit ==
    /\ \E c \in TransferCases, a \in StartAngles :
         tt_in = [nv |-> c.nv, nt |-> c.nt, phase_angle |-> c.phase_angle,
                  v0 |-> a.v0, t0 |-> a.t0]
    /\ tt_pc = "coarse"
    /\ tt_ut = 0
    /\ tt_elapsed = 0
    /\ tt_err = 0

TTPark ==
    /\ tt_in = [nv |-> 0, nt |-> 0, phase_angle |-> 0, v0 |-> 0, t0 |-> 0]
    /\ tt_pc = "returned"
    /\ tt_ut = 0
    /\ tt_elapsed = 0
    /\ tt_err = 0

\* main of rendezvous.py: time_transfer is not called yet
RVTTInit ==
    /\ \E c \in TransferCases, a \in StartAngles :
         tt_in = [nv |-> c.nv, nt |-> c.nt, phase_angle |-> c.phase_angle,
                  v0 |-> a.v0, t0 |-> a.t0]
    /\ tt_pc = "idle"
    /\ tt_ut = 0
    /\ tt_elapsed = 0
    /\ tt_err = 0

RVHist0 == [planned |-> <<>>, executed |-> <<>>]

RVInit ==
    /\ rv_pc = "match_planes"
    /\ rv_nodes = <<>>
    /\ rvHist = RVHist0

RVPark ==
    /\ rv_pc = "parked"
    /\ rv_nodes = <<>>
    /\ rvHist = RVHist0

\* node = v.control.add_node(...): the node joins the vessel's list
add_node(ns, name) == Append(ns, name)

\* execute_next_node(conn): nodes[0] is burnt and removed; nothing happens
\* when there is no node
execute_next_node(ns) == IF ns = <<>> THEN ns ELSE Tail(ns)

-----------------------------------------------------------------------------
(* PynetHandler of ksppynet.py: the request handler and the event loop *)

MaxRequests == 3     \* the requests the main thread puts
MaxReplies == 5      \* send_orbital_params puts no notification beyond this

\* the keys of self.methods, and one request that is none of them
Requests == {"connect", "disconnect", "plan", "orbital", "maneuver", "other"}

\* whether self.methods[req](*args, **kwargs), or default_method, raises:
\* D_connect when already connected or when krpc.connect fails, D_disconnect
\* always (it calls self.disconnect(self): one argument too many), D_plan and
\* D_maneuver on self.fp = None, D_maneuver on a key that is no maneuver,
\* D_orbital on a call without its argument
method_raises(req, fp, fails) ==
    CASE req = "connect" -> fp \/ fails
      [] req = "disconnect" -> TRUE
      [] req = "plan" -> ~fp
      [] req = "maneuver" -> ~fp \/ fails
      [] req = "orbital" -> fails
      [] OTHER -> FALSE

\* a dispatch without its try/except: the exception leaves the coroutine
dispatch_uncaught(req, fp, fails) ==
    IF method_raises(req, fp, fails) THEN "raised" ELSE "result"

\* dispatch: the key of the dict it returns
dispatch(req, fp, fails) ==
    IF method_raises(req, fp, fails) THEN "error" ELSE "result"

\* a message on self.replies
Reply(req, kind, by) == [req |-> req, kind |-> kind, by |-> by]

PNHist0 ==
    [sent |-> <<>>, served |-> <<>>, raised |-> {}, task_failed |-> FALSE,
     quit |-> FALSE]

PNInit ==
    /\ pn_requests = <<>>
    /\ pn_replies = <<>>
    /\ pn_fp = FALSE
    /\ pn_pc = "running"
    /\ pn_loop = "running"
    /\ pn_plan = "none"
    /\ pn_tasks = {}
    /\ pnHist = PNHist0

PNPark ==
    /\ pn_requests = <<>>
    /\ pn_replies = <<>>
    /\ pn_fp = FALSE
    /\ pn_pc = "returned"
    /\ pn_loop = "stopped"
    /\ pn_plan = "none"
    /\ pn_tasks = {}
    /\ pnHist = PNHist0

Frame(comp) ==
    /\ IF comp = "pid" THEN TRUE ELSE UNCHANGED varsPID
    /\ IF comp = "stage" THEN TRUE ELSE UNCHANGED varsStage
    /\ IF comp \in {"fp", "seq"} THEN TRUE ELSE UNCHANGED varsFP
    /\ IF comp = "burn" THEN TRUE ELSE UNCHANGED varsBurn
    /\ IF comp \in {"sbc", "sb"} THEN TRUE ELSE UNCHANGED varsSBC
    /\ IF comp = "sb" THEN TRUE ELSE UNCHANGED varsSB
    /\ IF comp = "deorbit" THEN TRUE ELSE UNCHANGED varsDO
    /\ IF comp = "fd" THEN TRUE ELSE UNCHANGED varsFD
    /\ IF comp = "ascent" THEN TRUE ELSE UNCHANGED varsAscent
    /\ IF comp = "seq" THEN TRUE ELSE UNCHANGED varsSeq
    /\ IF comp = "gt" THEN TRUE ELSE UNCHANGED varsGT
    /\ IF comp = "dock" THEN TRUE ELSE UNCHANGED varsDock
    /\ IF comp \in {"tt", "rv"} THEN TRUE ELSE UNCHANGED varsTT
    /\ IF comp = "rv" THEN TRUE ELSE UNCHANGED varsRV
    /\ IF comp = "pn" THEN TRUE ELSE UNCHANGED varsPN

InitFor(comp) ==
    /\ IF comp = "pid" THEN PIDInit ELSE PIDPark
    /\ IF comp = "stage" THEN StageInit ELSE StagePark
    /\ IF comp = "fp" THEN FPInit ELSE IF comp = "seq" THEN SeqFPInit ELSE FPPark
    /\ IF comp = "burn" THEN BurnInit ELSE BurnPark
    /\ IF comp \in {"sbc", "sb"} THEN SBCInit ELSE SBCPark
    /\ IF comp = "sb" THEN SBInit ELSE SBPark
    /\ IF comp = "deorbit" THEN DOInit ELSE DOPark
    /\ IF comp = "fd" THEN FDInit ELSE FDPark
    /\ IF comp = "ascent" THEN AscentInit ELSE AscentPark
    /\ IF comp = "seq" THEN SeqInit ELSE SeqPark
    /\ IF comp = "gt" THEN GTInit ELSE GTPark
    /\ IF comp = "dock" THEN DockInit ELSE DockPark
    /\ IF comp = "tt" THEN TTInit ELSE IF comp = "rv" THEN RVTTInit ELSE TTPark
    /\ IF comp = "rv" THEN RVInit ELSE RVPark
    /\ IF comp = "pn" THEN PNInit ELSE PNPark

-----------------------------------------------------------------------------
(* PID actions *)

\* your_pid.update(measure)
PIDUpdate ==
    /\ \E m \in Measures :
         /\ pid' = PIDUpdated(pid, m, clock)
         /\ pidHist' = [op |-> "update", arg |-> m, prevI |-> pid.I,
                        out |-> PIDOutput(PIDUpdated(pid, m, clock)),
                        upd |-> clock, prevUpd |-> pidHist.upd,
                        prevMeasure |-> pid.LastMeasure,
                        steady |-> IF pidHist.steady < 0 \/ m # pid.SetPoint
                                   THEN 0 - 1
                                   ELSE IF pidHist.steady < MaxSteady
                                   THEN pidHist.steady + 1
                                   ELSE MaxSteady]
    /\ UNCHANGED clock
    /\ Frame("pid")

\* your_pid.setpoint(value)
PIDSetpoint ==
    /\ \E v \in Measures :
         /\ pid' = PIDSetpointed(pid, v)
         /\ pidHist' = [pidHist EXCEPT !.op = "setpoint", !.arg = v, !.prevI = pid.I,
                                       !.steady = 0]
    /\ UNCHANGED clock
    /\ Frame("pid")

\* wall-clock time passes between calls
PIDTick ==
    /\ clock < MaxClock
    /\ clock' = clock + 1
    /\ UNCHANGED <<pid, pidHist>>
    /\ Frame("pid")

NextPID == PIDUpdate \/ PIDSetpoint \/ PIDTick

SpecPID == InitFor("pid") /\ [][NextPID]_vars

-----------------------------------------------------------------------------
(* C1.  PID anti-windup: with ClampI a fixed non-negative value, after any   *)
(* sequence of update(measure) and setpoint(value) calls the stored integral *)
(* I satisfies -ClampI <= I <= ClampI whenever a call has returned.          *)
C1_IntegralClamped ==
    /\ pid.ClampI >= 0
    /\ 0 - pid.ClampI <= pid.I
    /\ pid.I <= pid.ClampI

\* an update whose unclamped sum I + error lies below -ClampI has returned
C1_Witness ==
    /\ pidHist.op = "update"
    /\ pidHist.prevI + pid.P < 0 - pid.ClampI
    /\ pid.I = 0 - pid.ClampI

-----------------------------------------------------------------------------
(* Autostage actions *)

\* autostage(vessel, MAX_AUTO_STAGE), one call.  When it stages, the
\* resources of the new stage below are whatever the vessel carries there.
Autostage ==
    LET n == autostage(current_stage, max_auto_stage, stageRes)
    IN /\ current_stage' = Activated(current_stage, n)
       /\ IF n = 0 THEN stageRes' = stageRes ELSE stageRes' \in StageResources
       /\ stgHist' = [stgHist EXCEPT !.called = TRUE, !.before = current_stage,
                                     !.seen = stageRes]
       /\ UNCHANGED max_auto_stage
       /\ Frame("stage")

\* the engines drain one unit of a fuel of the stage
StageBurnFuel ==
    /\ \E f \in FuelNames :
         /\ stageRes[f].amount > 0
         /\ stageRes' = [stageRes EXCEPT ![f].amount = @ - 1]
    /\ UNCHANGED <<current_stage, max_auto_stage, stgHist>>
    /\ Frame("stage")

NextStage == Autostage \/ StageBurnFuel

SpecStage == InitFor("stage") /\ [][NextStage]_vars

-----------------------------------------------------------------------------
(* C2.  Autostaging never goes past the floor: a call with current_stage <=  *)
(* MAX_AUTO_STAGE activates nothing whatever the fuel state, each call       *)
(* activates at most one stage, and a run that starts with current_stage >=  *)
(* MAX_AUTO_STAGE keeps current_stage >= MAX_AUTO_STAGE.                     *)
C2_FloorNeverPassed ==
    /\ (stgHist.called /\ stgHist.before <= max_auto_stage)
          => current_stage = stgHist.before
    /\ stgHist.called
          => (current_stage = stgHist.before \/ current_stage = stgHist.before - 1)
    /\ stgHist.start >= max_auto_stage => current_stage >= max_auto_stage

\* a call made at the floor with an empty tank in the stage has returned
C2_Witness ==
    /\ stgHist.called
    /\ stgHist.before = max_auto_stage
    /\ stgHist.start > max_auto_stage
    /\ \E f \in FuelNames : out_of_fuel(stgHist.seen, f)
    /\ current_stage = max_auto_stage

\* The staging rule as the specification words it: some tracked fuel has
\* capacity and no amount left, or no tracked fuel is held at all.
C3_Rule(res) ==
    \/ \E f \in FuelNames : res[f].max > 0 /\ res[f].amount = 0
    \/ \A f \in FuelNames : ~res[f].present

(* C3.  Above the floor (current_stage > MAX_AUTO_STAGE) a call to autostage *)
(* activates the next stage if and only if some tracked fuel type has        *)
(* capacity > 0 and amount 0 in the stage's resources, or the stage holds no *)
(* tracked fuel at all; a stage whose present fuels all have amount > 0 is   *)
(* held.                                                                     *)
C3_StagesIffRule ==
    (stgHist.called /\ stgHist.before > max_auto_stage)
       => /\ (current_stage = stgHist.before - 1) <=> C3_Rule(stgHist.seen)
          /\ (current_stage = stgHist.before) <=> ~C3_Rule(stgHist.seen)

\* a call above the floor has held a stage whose first fuel is absent and
\* whose second fuel still has some amount
C3_Witness ==
    /\ stgHist.called
    /\ stgHist.before > max_auto_stage
    /\ ~stgHist.seen[ALL_FUELS[1]].present
    /\ stgHist.seen[ALL_FUELS[2]].amount > 0
    /\ current_stage = stgHist.before

-----------------------------------------------------------------------------
(* FlightPlan._autostager actions *)

\* the event loop resumes _autostager at its yield: one pass of the loop body
AutostagerTick ==
    /\ as_pc = "yield"
    /\ LET r == autostager_pass(autostaging_disabled, fp_stage)
       IN /\ as_pc' = CASE r = "done" -> "done"
                        [] r = "staged" -> "yield"
                        [] OTHER -> "sleep"
          /\ fp_stage' = IF r = "staged" THEN activate_next_stage(fp_stage) ELSE fp_stage
          /\ fpHist' = [ticked |-> TRUE, staged |-> (r = "staged"), from |-> fp_stage,
                        fuel |-> (fp_stage - 1) \in engineFuel, outcome |-> r,
                        disabled |-> autostaging_disabled]
          \* firing a stage may light engines of the stages still attached
          /\ IF r = "staged"
             THEN \E lit \in SUBSET FPDecoupleStages : engineFuel' = engineFuel \cup lit
             ELSE engineFuel' = engineFuel
    /\ UNCHANGED <<chuteStages, autostaging_disabled>>
    /\ Frame("fp")

\* asyncio.sleep(0.2) is over: back to the top of the loop, to the yield
AutostagerWake ==
    /\ as_pc = "sleep"
    /\ as_pc' = "yield"
    /\ UNCHANGED <<fp_stage, chuteStages, engineFuel, autostaging_disabled, fpHist>>
    /\ Frame("fp")

\* an engine of some stage runs out of fuel
FPFlameout ==
    /\ \E s \in engineFuel : engineFuel' = engineFuel \ {s}
    /\ UNCHANGED <<fp_stage, chuteStages, autostaging_disabled, as_pc, fpHist>>
    /\ Frame("fp")

\* _deorbiter: self.autostaging_disabled = True
FPDisableAutostaging ==
    /\ ~autostaging_disabled
    /\ autostaging_disabled' = TRUE
    /\ UNCHANGED <<fp_stage, chuteStages, engineFuel, as_pc, fpHist>>
    /\ Frame("fp")

NextFP == AutostagerTick \/ AutostagerWake \/ FPFlameout \/ FPDisableAutostaging

SpecFP == InitFor("fp") /\ [][NextFP]_vars

-----------------------------------------------------------------------------
(* C4.  The part-inspecting autostager never stages through a stage carrying *)
(* parachutes: it never issues activate_next_stage when the stage that call  *)
(* fires (current_stage - 1) contains a part with a parachute.               *)
C4_NeverFiresChuteStage ==
    fpHist.staged => (fpHist.from - 1) \notin chuteStages

\* C31: _autostager issues activate_next_stage only in a tick in which no
\* engine among the parts decoupled in stage current_stage - 1 is active with
\* fuel; a tick that finds one, and does not return, holds: the task sleeps
\* 0.2 s and re-checks.
C31_NoStagingWithFuel ==
    /\ fpHist.staged => ~fpHist.fuel
    /\ fpHist.ticked /\ fpHist.fuel /\ fpHist.outcome # "done" =>
           fpHist.outcome = "hold"
    /\ as_pc = "sleep" => fpHist.outcome = "hold" /\ fpHist.fuel

\* a tick held on a fuelled engine, and a later tick staged once it was out
C31_Witness ==
    /\ fpHist.staged /\ ~fpHist.fuel
    /\ fpHist.from = MaxFPStage - 1
    /\ fp_stage = MaxFPStage - 2

\* C39: once autostaging_disabled is set, _autostager activates no stage,
\* wherever the flag was set between its ticks: a tick that stages has read
\* the flag as false in the same run of the task, a tick that reads it as
\* true returns, and with the flag set the stage no longer changes.
C39_NoStagingOnceDisabled ==
    /\ [](/\ fpHist.staged => ~fpHist.disabled
          /\ fpHist.ticked /\ fpHist.disabled =>
                as_pc = "done" /\ ~fpHist.staged /\ fp_stage = fpHist.from
          /\ as_pc = "done" /\ ~fpHist.disabled => fpHist.from \in chuteStages)
    /\ [][autostaging_disabled => fp_stage' = fp_stage]_vars

\* the flag was set while the task slept on a fuelled engine; at its next
\* tick the engine was out, and the task returned without staging
C39_Witness ==
    /\ autostaging_disabled /\ as_pc = "done"
    /\ fpHist.ticked /\ fpHist.disabled
    /\ ~fpHist.fuel /\ fpHist.from \notin chuteStages /\ fpHist.from > 0
    /\ fp_stage = fpHist.from

-----------------------------------------------------------------------------
(* Burn executor actions *)

\* the state the entry point finds, kept for the claims
BurnCalled ==
    [bHist EXCEPT !.called = TRUE, !.hadNode = HasNode, !.thrust0 = thrust,
                  !.throttle0 = throttle, !.nodes0 = nodes, !.ap0 = ap,
                  !.warps0 = warps]

\* a pass of the burn loop that sampled dv and leaves the throttle at thr
BurnPassed(h, dv, thr) ==
    [h EXCEPT !.passes = IF @ < 2 THEN @ + 1 ELSE 2,
              !.seq = 1 - @,
              !.dv = dv,
              !.thrustAt = thrust,
              !.steppedDown = @ \/ (h.passes > 0 /\ dv <= h.dv
                                      /\ thrust = h.thrustAt /\ thr < throttle)]

\* space_center.warp_to(t) returns once the warp is over; the clock is then
\* no earlier than the lead time before the burn
AfterWarp(t) == IF t = "early" THEN "lead" ELSE t

\* execute_next_node(conn), from the call to the wait for the burn
ENN_Call ==
    /\ bx = "execute_next_node" /\ b_pc = "idle"
    /\ bHist' = BurnCalled
    /\ IF nodes = 0
       THEN \* except Exception: return
            /\ b_pc' = "returned"
            /\ UNCHANGED <<b_exc, ap, warps, b_time>>
       ELSE /\ ap' = [ap EXCEPT !.engaged = TRUE, !.targeted = TRUE]
            /\ IF burn_time_raises(thrust)
               THEN /\ b_pc' = "raised"
                    /\ b_exc' = "ZeroDivisionError"
                    /\ UNCHANGED <<warps, b_time>>
               ELSE /\ b_pc' = "wait"
                    /\ warps' = warps + 1
                    /\ b_time' = AfterWarp(b_time)
                    /\ UNCHANGED b_exc
    /\ UNCHANGED <<bx, nodes, self_node, rem, throttle, mass, thrust>>
    /\ Frame("burn")

\* execute_next_node: the wait loop is over, the throttle is opened
ENN_BurnStart ==
    /\ bx = "execute_next_node" /\ b_pc = "wait" /\ b_time = "due"
    /\ throttle' = thrust_controller(mass, thrust, rem)
    /\ b_pc' = "burn"
    /\ UNCHANGED <<bx, b_exc, nodes, self_node, rem, b_time, mass, thrust, ap,
                   warps, bHist>>
    /\ Frame("burn")

\* execute_next_node: one test of the burn loop, then its body or Finish Up
ENN_BurnPass ==
    /\ bx = "execute_next_node" /\ b_pc = "burn"
    /\ IF node_burn_continues(rem)
       THEN /\ throttle' = thrust_controller(mass, thrust, rem)
            /\ bHist' = BurnPassed(bHist, rem, throttle')
            /\ UNCHANGED <<b_pc, nodes, ap>>
       ELSE /\ ap' = [ap EXCEPT !.engaged = FALSE]
            /\ throttle' = burn_finished(nodes).throttle
            /\ nodes' = burn_finished(nodes).nodes
            /\ bHist' = BurnPassed(bHist, rem, throttle')
            /\ b_pc' = "returned"
    /\ UNCHANGED <<bx, b_exc, self_node, rem, b_time, mass, thrust, warps>>
    /\ Frame("burn")

\* executeNextNode(vessel, space_center), from the call to the wait
XNN_Call ==
    /\ bx = "executeNextNode" /\ b_pc = "idle"
    /\ bHist' = BurnCalled
    /\ IF nodes = 0
       THEN \* node=vessel.control.nodes[0] on an empty list
            /\ b_pc' = "raised"
            /\ b_exc' = "IndexError"
            /\ UNCHANGED <<ap, warps, b_time>>
       ELSE /\ ap' = [ap EXCEPT !.sas_mode = "maneuver"]
            /\ IF burn_time_raises(thrust)
               THEN /\ b_pc' = "raised"
                    /\ b_exc' = "ZeroDivisionError"
                    /\ UNCHANGED <<warps, b_time>>
               ELSE /\ b_pc' = "wait"
                    /\ warps' = warps + 1
                    /\ b_time' = AfterWarp(b_time)
                    /\ UNCHANGED b_exc
    /\ UNCHANGED <<bx, nodes, self_node, rem, throttle, mass, thrust>>
    /\ Frame("burn")

\* executeNextNode: the wait loop is over, vessel.control.throttle = 1.0
XNN_BurnStart ==
    /\ bx = "executeNextNode" /\ b_pc = "wait" /\ b_time = "due"
    /\ throttle' = 1000
    /\ b_pc' = "burn"
    /\ UNCHANGED <<bx, b_exc, nodes, self_node, rem, b_time, mass, thrust, ap,
                   warps, bHist>>
    /\ Frame("burn")

\* executeNextNode: one test of the burn loop, then its body or the end
XNN_BurnPass ==
    /\ bx = "executeNextNode" /\ b_pc = "burn"
    /\ IF node_burn_continues(rem)
       THEN \* autostage(vessel) may fire the next stage, which changes the
            \* thrust available
            /\ thrust' \in ThrustValues
            /\ throttle' = taper_throttle(rem)
            /\ bHist' = BurnPassed(bHist, rem, throttle')
            /\ UNCHANGED <<b_pc, nodes>>
       ELSE /\ throttle' = burn_finished(nodes).throttle
            /\ nodes' = burn_finished(nodes).nodes
            /\ bHist' = BurnPassed(bHist, rem, throttle')
            /\ b_pc' = "returned"
            /\ UNCHANGED thrust
    /\ UNCHANGED <<bx, b_exc, self_node, rem, b_time, mass, ap, warps>>
    /\ Frame("burn")

\* ManeuverNode.execute(), from the call to the first yield
MN_Call ==
    /\ bx = "ManeuverNode" /\ b_pc = "idle"
    /\ bHist' = BurnCalled
    /\ IF ~self_node
       THEN \* if not node: return True
            /\ b_pc' = "returned"
            /\ UNCHANGED <<b_exc, ap>>
       ELSE IF burn_time_raises(thrust)
       THEN /\ b_pc' = "raised"
            /\ b_exc' = "ZeroDivisionError"
            /\ UNCHANGED ap
       ELSE /\ b_pc' = "wait"
            /\ ap' = [ap EXCEPT !.engaged = TRUE, !.targeted = TRUE]
            /\ UNCHANGED b_exc
    /\ UNCHANGED <<bx, nodes, self_node, rem, b_time, throttle, mass, thrust, warps>>
    /\ Frame("burn")

\* ManeuverNode.execute: a pass of the loop before the burn is due; it asks
\* for a warp while the clock is before the lead time
MN_WaitPass ==
    /\ bx = "ManeuverNode" /\ b_pc = "wait" /\ b_time # "due"
    /\ IF b_time = "early"
       THEN /\ warps < MaxWarps
            /\ warps' = warps + 1
            /\ b_time' \in {"early", "lead"}
       ELSE UNCHANGED <<warps, b_time>>
    /\ UNCHANGED <<bx, b_pc, b_exc, nodes, self_node, rem, throttle, mass, thrust,
                   ap, bHist>>
    /\ Frame("burn")

\* ManeuverNode.execute: a pass of the loop once the burn is due
MN_BurnPass ==
    /\ bx = "ManeuverNode" /\ b_pc \in {"wait", "burn"} /\ b_time = "due"
    /\ LET r == mn_pass(mass, thrust, rem)
       IN CASE r.kind = "skip" ->
                 /\ b_pc' = "burn"
                 /\ UNCHANGED <<throttle, nodes, self_node, bHist>>
            [] r.kind = "burn" ->
                 /\ b_pc' = "burn"
                 /\ throttle' = r.throttle
                 /\ bHist' = BurnPassed(bHist, rem, throttle')
                 /\ UNCHANGED <<nodes, self_node>>
            [] OTHER ->
                 /\ throttle' = burn_finished(nodes).throttle
                 /\ nodes' = burn_finished(nodes).nodes
                 /\ self_node' = FALSE
                 /\ bHist' = BurnPassed(bHist, rem, throttle')
                 /\ b_pc' = "returned"
    /\ UNCHANGED <<bx, b_exc, rem, b_time, mass, thrust, ap, warps>>
    /\ Frame("burn")

\* the clock moves toward the burn while the executor waits
BurnTimePasses ==
    /\ b_pc = "wait" /\ b_time # "due"
    /\ b_time' = IF b_time = "early" THEN "lead" ELSE "due"
    /\ UNCHANGED <<bx, b_pc, b_exc, nodes, self_node, rem, throttle, mass, thrust,
                   ap, warps, bHist>>
    /\ Frame("burn")

\* the engines run: the remaining delta-v changes (it grows again after an
\* overshoot) and the mass does not increase
BurnPhysics ==
    /\ b_pc = "burn" /\ throttle > 0 /\ thrust > 0
    /\ rem' \in DvOf(bx) \ {rem}
    /\ mass' \in {m \in MassValues : m <= mass}
    /\ UNCHANGED <<bx, b_pc, b_exc, nodes, self_node, b_time, throttle, thrust, ap,
                   warps, bHist>>
    /\ Frame("burn")

\* the thrust the vessel can produce changes during the burn: an engine
\* flames out, a stage is dropped and the next one lit
BurnThrustChange ==
    /\ b_pc = "burn"
    /\ thrust' \in ThrustValues \ {thrust}
    /\ UNCHANGED <<bx, b_pc, b_exc, nodes, self_node, rem, b_time, throttle, mass,
                   ap, warps, bHist>>
    /\ Frame("burn")

NextBurn ==
    \/ ENN_Call \/ ENN_BurnStart \/ ENN_BurnPass
    \/ XNN_Call \/ XNN_BurnStart \/ XNN_BurnPass
    \/ MN_Call \/ MN_WaitPass \/ MN_BurnPass
    \/ BurnTimePasses \/ BurnPhysics \/ BurnThrustChange

SpecBurn == InitFor("burn") /\ [][NextBurn]_vars

\* the remaining delta-v at which an executor ends its burn
CompletionDv(executor) == IF executor = "ManeuverNode" THEN 0 ELSE Tolerance

C7_ThrottleMonotone ==
    [][(bHist'.seq # bHist.seq /\ bHist.passes > 0 /\ bHist'.dv <= bHist.dv)
          => throttle' <= throttle]_vars

\* C7 amended: of two successive passes that command the throttle with the
\* same available thrust and a mass that has not grown, the second sampling
\* no more remaining delta-v than the first, the second commands no more
\* throttle than the first.
C7_ThrottleMonotoneSameThrust ==
    [][(bHist'.seq # bHist.seq /\ bHist.passes > 0 /\ bHist'.dv <= bHist.dv
          /\ bHist'.thrustAt = bHist.thrustAt)
          => throttle' <= throttle]_vars

\* a pass with the same thrust and no more delta-v has lowered the throttle
C7_Witness == bHist.steppedDown /\ b_pc = "burn" /\ throttle > 0

\* C8: called with a node and no available thrust, an executor surfaces
\* NoThrustAvailable, asks for no warp, commands no throttle and does not
\* divide by zero.
C8_ZeroThrustRefused ==
    (bHist.called /\ bHist.hadNode /\ bHist.thrust0 = 0) =>
        /\ b_exc = "NoThrustAvailable"
        /\ warps = bHist.warps0
        /\ throttle = bHist.throttle0

\* C9: called with no maneuver node, every entry point returns normally and
\* leaves the throttle, the autopilot, the warp and the node list as they were.
C9_NoNodeSilentNoOp ==
    (bHist.called /\ ~bHist.hadNode) =>
        /\ b_pc = "returned"
        /\ b_exc = "none"
        /\ throttle = bHist.throttle0
        /\ ap = bHist.ap0
        /\ warps = bHist.warps0
        /\ nodes = bHist.nodes0

-----------------------------------------------------------------------------
(* suicide_burn_calculator actions *)

\* computer.update()
SBCUpdate ==
    /\ sbc_exc = "none"
    /\ \E peri \in Periapses, angle \in Angles, a \in Accels, speed \in Speeds,
          fall \in FallTimes, ut \in 0..MaxUt :
         /\ sbcHist' = [fresh |-> TRUE, peri |-> peri, alt0 |-> sbc.alt,
                        had |-> sbc.ground_track # INF]
         /\ IF peri > 0
            THEN /\ sbc' = sbc_not_landing(sbc)
                 /\ sbc_ret' = sbc'.burn_time
                 /\ UNCHANGED sbc_exc
            ELSE IF decel_radicand(a[1], a[2], Sine(angle)) < 0
            THEN /\ sbc' = sbc_landing_raised(sbc, angle)
                 /\ sbc_exc' = "ValueError"
                 /\ UNCHANGED sbc_ret
            ELSE /\ sbc' = sbc_landing(sbc, angle, a[1], a[2], speed, ut + fall, ut)
                 /\ sbc_ret' = sbc'.burn_time - ut
                 /\ UNCHANGED sbc_exc
    /\ Frame("sbc")

\* computer.alt = ... (suicide_burn, between the calls of update())
SBCSetAlt ==
    /\ sbc_exc = "none"
    /\ \E a \in AltValues \ {sbc.alt} : sbc' = [sbc EXCEPT !.alt = a]
    /\ sbcHist' = [sbcHist EXCEPT !.fresh = FALSE]
    /\ UNCHANGED <<sbc_ret, sbc_exc>>
    /\ Frame("sbc")

NextSBC == SBCUpdate \/ SBCSetAlt

SpecSBC == InitFor("sbc") /\ [][NextSBC]_vars

\* C10 as stated: an update() that reads a periapsis altitude above 0 returns
\* the infinite sentinel and leaves ignition time, burn duration, ground-track
\* distance, effective deceleration and target altitude at the sentinel.
C10_AllFieldsUndefined ==
    (sbcHist.fresh /\ sbcHist.peri > 0) =>
        /\ sbc_ret = INF
        /\ sbc.burn_time = INF
        /\ sbc.burn_duration = INF
        /\ sbc.ground_track = INF
        /\ sbc.effective_decel = INF
        /\ sbc.alt = INF

\* C10 amended: an update() that reads a periapsis altitude above 0 returns
\* the infinite sentinel and leaves ignition time, burn duration, ground-track
\* distance, effective deceleration, angle and impact time at the sentinel,
\* whatever earlier calls left there; the target altitude keeps the value the
\* caller gave it.
C10_EstimateUndefinedAltKept ==
    (sbcHist.fresh /\ sbcHist.peri > 0) =>
        /\ sbc_ret = INF
        /\ sbc.burn_time = INF
        /\ sbc.burn_duration = INF
        /\ sbc.ground_track = INF
        /\ sbc.effective_decel = INF
        /\ sbc.angle_from_horizontal = INF
        /\ sbc.impact_time = INF
        /\ sbc.alt = sbcHist.alt0
        /\ sbc.alt # INF

\* update() has read a periapsis above 0 on an object that held a finite
\* estimate and a target altitude assigned by the caller
C10_Witness ==
    /\ sbcHist.fresh /\ sbcHist.peri > 0
    /\ sbcHist.had
    /\ sbc.has_decel_time
    /\ sbc.alt = MaxAlt
    /\ sbc_ret = INF

-----------------------------------------------------------------------------
(* suicide_burn / burn_until_velocity actions *)

\* everything one computer.update() reads from the vessel and the clock; the
\* clock is taken as the origin of time, the trajectory as landing (periapsis
\* 0) or not (above 0), the fall as the shorter one: the countdown then covers
\* inf, above and below both thresholds, 0 and below 0
SBReadings ==
    {r \in [peri : Periapses, angle : Angles, a : Accels, speed : Speeds,
            fall : FallTimes, ut : {0}] :
        r.peri >= 0 /\ \A f \in FallTimes : r.fall <= f}

SBUpdateOf(c, r) == sbc_update(c, r.peri, r.angle, r.a, r.speed, r.fall, r.ut)

\* the outcomes update() can have on c: the readings and what they lead to
SBOutcomes(c) == {[r |-> r, u |-> SBUpdateOf(c, r)] : r \in SBReadings}

\* the calculator's variables after update() was called on c with outcome o
SBCalcUpdated(c, o) ==
    /\ sbc' = o.u.c
    /\ sbc_exc' = o.u.exc
    /\ sbc_ret' = IF o.u.exc = "none" THEN o.u.ret ELSE sbc_ret
    /\ sbcHist' = [fresh |-> TRUE, peri |-> o.r.peri, alt0 |-> c.alt,
                   had |-> c.ground_track # INF]

\* suicide_burn, up to the first call of burn_until_velocity: a calculator is
\* made for 5000 m, updated once, and given the terrain height over its ground
\* track; coords_down_bearing raises ValueError (math.cos of inf) when the
\* ground track is infinite
SB_Setup ==
    /\ sb_pc = "start"
    /\ \E o \in SBOutcomes(SBCNew(MaxAlt)), terrain \in {0, MaxAlt} :
         LET u == o.u
             r == o.r
         IN IF u.exc # "none" \/ u.c.ground_track = INF
            THEN /\ SBCalcUpdated(SBCNew(MaxAlt), o)
                 /\ sb_pc' = "raised"
                 /\ sb_exc' = "ValueError"
            ELSE /\ sbc' = [u.c EXCEPT !.alt = terrain]
                 /\ sbc_ret' = u.ret
                 /\ sbcHist' = [fresh |-> FALSE, peri |-> r.peri, alt0 |-> MaxAlt,
                                had |-> FALSE]
                 /\ UNCHANGED <<sbc_exc, sb_exc>>
                 /\ sb_pc' = "enter"
    /\ UNCHANGED <<sb_entry, sb_autowarp, sb_pass, sb_thresh, sb_countdown,
                   sb_throttle, sb_warps, sbHist>>
    /\ Frame("sb")

\* burn_until_velocity, up to the wait loop: the first update() and the warp
BUV_Enter ==
    /\ sb_pc = "enter"
    /\ \E o \in SBOutcomes(sbc) :
         LET u == o.u
             r == o.r
             h == [SBHist0 EXCEPT !.inCall = TRUE, !.altReset = sbHist.altReset]
         IN /\ SBCalcUpdated(sbc, o)
            /\ IF u.exc # "none"
               THEN /\ sb_pc' = "raised"
                    /\ sb_exc' = u.exc
                    /\ sbHist' = h
                    /\ UNCHANGED <<sb_countdown, sb_warps>>
               ELSE /\ sb_pc' = "wait"
                    /\ sb_countdown' = u.ret
                    /\ UNCHANGED sb_exc
                    /\ IF buv_warps(buv_autowarp(sb_entry, sb_autowarp), u.ret, sb_thresh)
                       THEN /\ sb_warps' = sb_warps + 1
                            /\ sbHist' = [SBUpdated(h, u.ret) EXCEPT
                                             !.warped = TRUE,
                                             !.warpTarget = buv_warp_target(r.ut, u.ret)]
                       ELSE /\ sbHist' = SBUpdated(h, u.ret)
                            /\ UNCHANGED sb_warps
    /\ UNCHANGED <<sb_entry, sb_autowarp, sb_pass, sb_thresh, sb_throttle>>
    /\ Frame("sb")

\* burn_until_velocity: one pass of the wait loop
BUV_WaitTick ==
    /\ sb_pc = "wait"
    /\ buv_wait_continues(sb_countdown)
    /\ \E o \in SBOutcomes(sbc) :
         LET u == o.u
         IN /\ SBCalcUpdated(sbc, o)
            /\ IF u.exc # "none"
               THEN /\ sb_pc' = "raised"
                    /\ sb_exc' = u.exc
                    /\ UNCHANGED <<sb_countdown, sbHist>>
               ELSE /\ sb_countdown' = u.ret
                    /\ sbHist' = SBUpdated(sbHist, u.ret)
                    /\ UNCHANGED <<sb_pc, sb_exc>>
    /\ UNCHANGED <<sb_entry, sb_autowarp, sb_pass, sb_thresh, sb_throttle, sb_warps>>
    /\ Frame("sb")

\* burn_until_velocity: the wait loop is over; one test of the burn loop,
\* then its body, or the throttle cut and the return
BUV_BurnTick ==
    /\ \/ sb_pc = "wait" /\ ~buv_wait_continues(sb_countdown)
       \/ sb_pc = "burn"
    /\ \E vs \in VertSpeeds :
         IF buv_burn_continues(vs, sb_thresh)
         THEN \E o \in SBOutcomes(sbc) :
                LET u == o.u
                IN /\ SBCalcUpdated(sbc, o)
                   /\ IF u.exc # "none"
                      THEN /\ sb_pc' = "raised"
                           /\ sb_exc' = u.exc
                           /\ UNCHANGED <<sb_countdown, sb_throttle, sbHist>>
                      ELSE /\ sb_pc' = "burn"
                           /\ sb_countdown' = u.ret
                           /\ sb_throttle' = buv_burn_throttle(u.ret)
                           /\ sbHist' = [SBUpdated(sbHist, u.ret) EXCEPT
                                            !.cmds = @ \cup buv_burn_commands(u.ret)]
                           /\ UNCHANGED sb_exc
         ELSE /\ sb_throttle' = 0
              /\ sbHist' = [sbHist EXCEPT !.cmds = @ \cup {0}, !.exited = TRUE,
                                          !.exitVs = vs]
              /\ sb_pc' = IF sb_entry = "suicide_burn" /\ sb_pass = 1
                          THEN "between" ELSE "returned"
              /\ UNCHANGED <<sb_countdown, sb_exc, varsSBC>>
    /\ UNCHANGED <<sb_entry, sb_autowarp, sb_pass, sb_thresh, sb_warps>>
    /\ Frame("sb")

\* suicide_burn, between the two passes: the calculator aims for 10 m above
\* the ground under the vessel, and the second pass is called
SB_Between ==
    /\ sb_pc = "between"
    /\ \E ground \in {0, MaxAlt} : sbc' = [sbc EXCEPT !.alt = ground]
    /\ sbcHist' = [sbcHist EXCEPT !.fresh = FALSE]
    /\ sb_pass' = 2
    /\ sb_thresh' = Thresh2
    /\ sb_pc' = "enter"
    /\ sbHist' = [sbHist EXCEPT !.altReset = TRUE, !.inCall = FALSE]
    /\ UNCHANGED <<sbc_ret, sbc_exc, sb_entry, sb_autowarp, sb_countdown,
                   sb_throttle, sb_warps, sb_exc>>
    /\ Frame("sb")

NextSB == SB_Setup \/ BUV_Enter \/ BUV_WaitTick \/ BUV_BurnTick \/ SB_Between

SpecSB == InitFor("sb") /\ [][NextSB]_vars

\* C11: while every update() of a burn_until_velocity call has returned the
\* undefined sentinel, the call has requested no warp and commanded no throttle.
C11_UndefinedWaitsIdle ==
    (sb_pc = "wait" /\ sbHist.inCall /\ sbHist.allInf) =>
        /\ ~sbHist.warped
        /\ sb_warps = 0
        /\ sbHist.cmds = {}

\* C12: burn_until_velocity commands a throttle above 0 only after one of its
\* update() calls has returned a countdown at or below 0, and the countdown its
\* loops test is always the value returned by the latest update(), made in
\* the same pass.
C12_BurnOnlyAfterCountdown ==
    /\ (\E c \in sbHist.cmds : c > 0) => sbHist.sawNonPos
    /\ sb_pc \in {"wait", "burn"} => (sbcHist.fresh /\ sb_countdown = sbc_ret)

\* the call warped (its first countdown was above the threshold), waited, and
\* is now burning
C12_Witness ==
    /\ sb_pc = "burn"
    /\ sbHist.warped
    /\ sbHist.sawNonPos
    /\ sb_throttle > 0

\* C13: after each pass of the burn loop the throttle is 0.95 when the
\* countdown recomputed in that pass is at or above 0 and 1.0 when it is below;
\* the call commands no other value than these and 0, and leaves the throttle
\* at 0 when it returns.
C13_BurnThrottle ==
    /\ sb_pc = "burn" => sb_throttle = (IF sb_countdown < 0 THEN 1000 ELSE 950)
    /\ sbHist.cmds \subseteq {0, 950, 1000}
    /\ sb_pc \in {"between", "returned"} => sb_throttle = 0

\* a pass of the burn loop has recomputed a countdown of exactly 0
C13_Witness ==
    /\ sb_pc = "burn"
    /\ sb_countdown = 0
    /\ sb_throttle = 950

\* C14 as stated: burn_until_velocity(thresh) leaves its burn loop only with
\* |vertical_speed| < thresh.
C14_ExitBelowThreshold ==
    sb_pc \in {"between", "returned"} =>
        /\ sbHist.exitVs < sb_thresh
        /\ 0 - sbHist.exitVs < sb_thresh

\* C14 amended: burn_until_velocity(thresh) leaves its burn loop only on a
\* vertical speed at or above -thresh (a descent rate of at most thresh, the
\* bound included, or a climb at any rate); suicide_burn runs the first pass
\* with thresh 10 and, after it has returned and the target altitude was
\* reset, the second with thresh 5.
C14_ExitAtDescentRate ==
    sb_pc \in {"between", "returned"} =>
        /\ sbHist.exited
        /\ sbHist.exitVs >= 0 - sb_thresh
        /\ sb_entry = "suicide_burn" =>
              \/ sb_pass = 1 /\ sb_thresh = Thresh1 /\ ~sbHist.altReset
              \/ sb_pass = 2 /\ sb_thresh = Thresh2 /\ sbHist.altReset

\* the second pass of suicide_burn has burned and returned on a vertical speed
\* of exactly -5 m/s
C14_Witness ==
    /\ sb_pc = "returned"
    /\ sb_pass = 2
    /\ sbHist.exitVs = 0 - Thresh2
    /\ 950 \in sbHist.cmds

-----------------------------------------------------------------------------
(* deorbit actions *)

\* deorbit(vessel, eccentricity), up to the loop: SAS is set to retrograde
DO_Call ==
    /\ do_pc = "idle"
    /\ do_sas' = "retrograde"
    /\ do_pc' = "loop"
    /\ UNCHANGED <<do_target, do_throttle, doHist>>
    /\ Frame("deorbit")

\* deorbit: one test of the loop, then its body or the throttle cut
DO_Tick ==
    /\ do_pc = "loop"
    /\ \E ecc \in EccValues, peri \in Periapses :
         /\ doHist' = [tests |-> IF doHist.tests < 2 THEN doHist.tests + 1 ELSE 2,
                       ecc |-> ecc, peri |-> peri]
         /\ IF deorbit_continues(ecc, do_target, peri)
            THEN /\ do_throttle' = 1000
                 /\ UNCHANGED do_pc
            ELSE /\ do_throttle' = 0
                 /\ do_pc' = "returned"
    /\ UNCHANGED <<do_target, do_sas>>
    /\ Frame("deorbit")

NextDO == DO_Call \/ DO_Tick

SpecDO == InitFor("deorbit") /\ [][NextDO]_vars

\* C15: deorbit sets the throttle to 0 and returns only on a reading with the
\* eccentricity at or above the target and the periapsis altitude at or below
\* 0; on any other reading, in particular one with the periapsis above 0 and
\* the eccentricity target met, it stays in the loop with the throttle at 1.0.
C15_DeorbitBothConditions ==
    /\ do_pc = "returned" =>
          (do_throttle = 0 /\ doHist.ecc >= do_target /\ doHist.peri <= 0)
    /\ (doHist.tests > 0 /\ (doHist.ecc < do_target \/ doHist.peri > 0)) =>
          (do_pc = "loop" /\ do_throttle = 1000)

\* the loop has read an eccentricity at the target with the periapsis still
\* above 0, and keeps burning
C15_Witness ==
    /\ do_pc = "loop"
    /\ doHist.tests > 0
    /\ doHist.ecc >= do_target
    /\ doHist.peri > 0
    /\ do_throttle = 1000

-----------------------------------------------------------------------------
(* final_descent actions *)

\* final_descent(v), up to the loop: p = PID(.25, .25, .025)
FD_Call ==
    /\ fd_pc = "idle"
    /\ fd_pid' = PIDNew(FDClampI, fd_clock)
    /\ fd_pc' = "loop"
    /\ UNCHANGED <<fd_clock, fd_throttle, fdHist>>
    /\ Frame("fd")

\* final_descent: one test of the loop, then its body or the throttle cut
FD_Tick ==
    /\ fd_pc = "loop"
    /\ \E sit \in Situations, alt \in FDAlts, vs \in FDSpeeds, now \in fd_clock..MaxClock :
         /\ fd_clock' = now
         /\ fdHist' = [tests |-> IF fdHist.tests < 2 THEN fdHist.tests + 1 ELSE 2,
                       situation |-> sit, alt |-> alt]
         /\ IF fd_continues(sit)
            THEN /\ fd_pid' = PIDUpdated(PIDSetpointed(fd_pid, safe_descent(alt)), vs, now)
                 /\ fd_throttle' = fd_output(fd_pid')
                 /\ UNCHANGED fd_pc
            ELSE /\ fd_throttle' = [num |-> 0, den |-> 1]
                 /\ fd_pc' = "returned"
                 /\ UNCHANGED fd_pid
    /\ Frame("fd")

NextFD == FD_Call \/ FD_Tick

SpecFD == InitFor("fd") /\ [][NextFD]_vars

\* C16: a test of the descent loop that reads the status landed or splashed
\* ends the loop: final_descent sets the throttle to 0 and returns instead of
\* commanding the throttle from the PID.
C16_ExitsWhenDown ==
    (fdHist.tests > 0 /\ fdHist.situation \in {"landed", "splashed"}) =>
        (fd_pc = "returned" /\ fd_throttle.num = 0)

C34_ThrottleInUnitRange ==
    (fd_pc = "loop" /\ fdHist.tests > 0) =>
        /\ fd_throttle.num >= 0
        /\ fd_throttle.num <= 10000 * fd_throttle.den

-----------------------------------------------------------------------------
(* ascent(conn, launch_params) of Simple_Launch_Script.py.  Each action is one
   test of the loop the script is in together with what follows from it. *)

\* autostage(v, launch_params.max_auto_stage): the stages it can leave current,
\* over the resources the stage may hold
AutostageOutcomes(stage, MAX_AUTO_STAGE) ==
    {Activated(stage, autostage(stage, MAX_AUTO_STAGE, res)) : res \in StageResources}

\* ascent, from the call to the first test of the gravity turn loop
A_Call ==
    /\ a_pc = "idle"
    /\ a_pid' = PIDSetpointed([PIDNew(1, 0) EXCEPT !.ClampI = MaxQ], MaxQ)
    /\ a_sas' = "auto_pilot"
    /\ a_throttle' = Throttle(1000)
    /\ a_pc' = "gravturn"
    /\ UNCHANGED <<a_floor, a_deploy, a_stage, a_clock, a_pitch, a_warp,
                   a_warp_to, a_nodes, a_solar, a_exc, aHist>>
    /\ Frame("ascent")

\* one test of the gravity turn loop: its body, or the lines down to the
\* throttle=.2 of the first boostAPA
A_GravTick ==
    /\ a_pc = "gravturn"
    /\ \E apo \in ApoValues :
         /\ aHist' = [aHist EXCEPT !.apo = apo, !.trimTests = 0]
         /\ IF apoapsis_way_low(apo, OrbitAlt)
            THEN \E st \in AutostageOutcomes(a_stage, a_floor), alt \in TurnAlts,
                    q \in QValues, now \in a_clock..MaxClock :
                   /\ a_pitch' = gravturn(alt)
                   /\ a_stage' = st
                   /\ a_pid' = PIDUpdated(a_pid, q, now)
                   /\ a_throttle' = limitq(a_pid')
                   /\ a_clock' = now
                   /\ UNCHANGED <<a_pc, a_sas>>
            ELSE /\ a_sas' = "prograde"
                 /\ a_throttle' = Throttle(TrimThrottle)
                 /\ a_pc' = "trim"
                 /\ UNCHANGED <<a_pitch, a_stage, a_pid, a_clock>>
    /\ UNCHANGED <<a_floor, a_deploy, a_warp, a_warp_to, a_nodes, a_solar, a_exc>>
    /\ Frame("ascent")

\* boostAPA: one test of its loop, then its body or the return to ascent, which
\* sets the warp factor for the coast
A_TrimTick ==
    /\ a_pc \in {"trim", "coast_trim"}
    /\ \E apo \in ApoValues :
         /\ aHist' = [aHist EXCEPT !.apo = apo, !.trimTests = 1]
         /\ IF apoapsis_little_low(apo, OrbitAlt)
            THEN \E st \in AutostageOutcomes(a_stage, a_floor) :
                   /\ a_stage' = st
                   /\ UNCHANGED <<a_pc, a_throttle, a_warp>>
            ELSE /\ a_throttle' = Throttle(0)
                 /\ a_warp' = MAX_PHYSICS_WARP
                 /\ a_pc' = "coast"
                 /\ UNCHANGED a_stage
    /\ UNCHANGED <<a_floor, a_deploy, a_pid, a_clock, a_pitch, a_sas, a_warp_to,
                   a_nodes, a_solar, a_exc>>
    /\ Frame("ascent")

\* one test of the coast loop: into boostAPA, once more round, or on to planCirc
A_CoastTick ==
    /\ a_pc = "coast"
    /\ \E atmo \in BOOLEAN, apo \in ApoValues :
         LET next == coast_next(atmo, apoapsis_little_low(apo, OrbitAlt))
         IN /\ aHist' = [aHist EXCEPT !.atmo = atmo,
                                      !.apo = IF atmo THEN apo ELSE @,
                                      !.trimTests = 0,
                                      !.retrimmed = @ \/ next = "coast_trim"]
            /\ a_pc' = next
            /\ a_warp' = IF next = "coast" THEN a_warp ELSE warp_for_burn(a_warp)
            /\ a_throttle' = IF next = "coast_trim" THEN Throttle(TrimThrottle)
                             ELSE a_throttle
            /\ a_nodes' = IF next = "circ" THEN a_nodes + 1 ELSE a_nodes
    /\ UNCHANGED <<a_floor, a_deploy, a_stage, a_pid, a_clock, a_pitch, a_sas,
                   a_warp_to, a_solar, a_exc>>
    /\ Frame("ascent")

\* execute_next_node over the readings of one pass: whether burn_time raises,
\* whether the burn loop goes on, the throttle thrust_controller returns
CircReadings ==
    {[raises |-> burn_time_raises(F), continues |-> node_burn_continues(dv),
      throttle |-> thrust_controller(m, F, dv)] :
        m \in MassValues, F \in ThrustValues, dv \in DvOf("execute_next_node")}

\* execute_next_node(conn) called by ascent, down to the throttle it opens
A_CircCall ==
    /\ a_pc = "circ"
    /\ a_sas' = "auto_pilot"
    /\ \E r \in CircReadings :
         IF r.raises
         THEN /\ a_pc' = "raised"
              /\ a_exc' = "ZeroDivisionError"
              /\ UNCHANGED <<a_warp_to, a_throttle>>
         ELSE /\ a_warp_to' = a_warp_to + 1
              /\ a_throttle' = Throttle(r.throttle)
              /\ a_pc' = "circ_burn"
              /\ UNCHANGED a_exc
    /\ UNCHANGED <<a_floor, a_deploy, a_stage, a_pid, a_clock, a_pitch, a_warp,
                   a_nodes, a_solar, aHist>>
    /\ Frame("ascent")

\* one test of the burn loop of execute_next_node, then its body or the end of
\* ascent
A_CircBurnPass ==
    /\ a_pc = "circ_burn"
    /\ \E r \in CircReadings :
         IF r.continues
         THEN /\ a_throttle' = Throttle(r.throttle)
              /\ UNCHANGED <<a_pc, a_nodes, a_solar, a_sas>>
         ELSE /\ a_throttle' = Throttle(burn_finished(a_nodes).throttle)
              /\ a_nodes' = burn_finished(a_nodes).nodes
              /\ a_solar' = IF a_deploy THEN TRUE ELSE a_solar
              /\ a_sas' = "prograde"
              /\ a_pc' = "done"
    /\ UNCHANGED <<a_floor, a_deploy, a_stage, a_pid, a_clock, a_pitch, a_warp,
                   a_warp_to, a_exc, aHist>>
    /\ Frame("ascent")

NextAscent ==
    \/ A_Call
    \/ A_GravTick
    \/ A_TrimTick
    \/ A_CoastTick
    \/ A_CircCall
    \/ A_CircBurnPass

SpecAscent == InitFor("ascent") /\ [][NextAscent]_vars

\* C18: ascent only moves forward through gravity turn, apoapsis trim, coast,
\* circularization and done, except that the coast enters boostAPA again
\* exactly on a pass that finds the vessel in the atmosphere with the apoapsis
\* below orbit_alt; the gravity turn loop is entered only from the call; the
\* node is planned only by the coast pass that reads the vessel out of the
\* atmosphere, and the solar panels are deployed only when the burn has ended.
C18_PhasesForward ==
    [][ /\ \/ PhaseRank(a_pc') >= PhaseRank(a_pc)
           \/ a_pc = "coast" /\ a_pc' = "coast_trim"
        /\ a_pc = "coast" =>
             (a_pc' = "coast_trim" <=> aHist'.atmo /\ aHist'.apo < OrbitAlt)
        /\ a_pc' = "gravturn" => a_pc \in {"idle", "gravturn"}
        /\ a_nodes' > a_nodes => a_pc = "coast" /\ a_pc' = "circ" /\ ~aHist'.atmo
        /\ a_solar' /\ ~a_solar => a_pc = "circ_burn" /\ a_pc' = "done"
      ]_vars

\* ascent is done, solar panels out, after a coast that called boostAPA
C18_Witness ==
    a_pc = "done" /\ a_solar /\ aHist.retrimmed /\ a_nodes = 0

\* C19, as stated: boostAPA returns only on an apoapsis at or above orbit_alt
\* with the throttle at 0, and the throttle is at 0.2 in boostAPA only while the
\* apoapsis last read is below orbit_alt.
C19_BurnsOnlyBelowTarget ==
    /\ a_pc = "coast" /\ aHist.trimTests = 1 =>
         aHist.apo >= OrbitAlt /\ a_throttle = Throttle(0)
    /\ a_pc \in {"trim", "coast_trim"} /\ a_throttle = Throttle(TrimThrottle) =>
         aHist.apo < OrbitAlt

\* C19, amended: boostAPA sets the throttle to 0.2 when it is entered, whatever
\* the apoapsis, and keeps it there until it returns; every test of its loop
\* that did not end it read an apoapsis below orbit_alt, the coast enters it
\* only on such a reading, and it returns only on a reading at or above
\* orbit_alt, with the throttle at 0.
C19_TrimExitsAtTarget ==
    /\ a_pc = "coast" /\ aHist.trimTests = 1 =>
         aHist.apo >= OrbitAlt /\ a_throttle = Throttle(0)
    /\ a_pc \in {"trim", "coast_trim"} => a_throttle = Throttle(TrimThrottle)
    /\ a_pc \in {"trim", "coast_trim"} /\ aHist.trimTests = 1 =>
         aHist.apo < OrbitAlt
    /\ a_pc = "coast_trim" => aHist.apo < OrbitAlt
    /\ a_pc = "trim" /\ aHist.trimTests = 0 =>
         ~apoapsis_way_low(aHist.apo, OrbitAlt)

\* boostAPA has just returned at exactly orbit_alt
C19_Witness ==
    a_pc = "coast" /\ aHist.trimTests = 1 /\ aHist.apo = OrbitAlt
        /\ a_throttle = Throttle(0)

\* C20: from the start of the coast on, whenever the throttle is above 0 the
\* physics warp factor is 0; the warp factor is 0 from the planning of the
\* circularization node to the end of ascent; and the warp factor is raised
\* only by a step that leaves the throttle at 0.
C20_NoBurnUnderWarp ==
    /\ [](a_pc \in {"coast", "coast_trim", "circ", "circ_burn", "done", "raised"}
            /\ a_throttle.num > 0 => a_warp = 0)
    /\ [](a_pc \in {"circ", "circ_burn", "done", "raised"} => a_warp = 0)
    /\ [][a_warp' > a_warp => a_throttle' = Throttle(0) /\ a_pc' = "coast"]_vars

\* the trim burn called by the coast is on, in real time, the coast having
\* warped before it
C20_Witness ==
    a_pc = "coast_trim" /\ a_throttle.num > 0 /\ a_warp = 0
        /\ aHist.trimTests = 1

-----------------------------------------------------------------------------
(* FlightPlan sequences: add_sequence, run_sequence, _start_sequence, the
   sequence coroutines and the warp_to task, as steps of the event loop. *)

seqWarpVars == <<warp_pc, warp_target, rails_warp_factor, physics_warp_factor>>
seqVesselVars == <<fl_throttle, fl_engaged, fp_stage, autostaging_disabled>>
seqPartVars == <<chuteStages, engineFuel, as_pc, fpHist>>
seqQueueVars == <<sequence, loop_stopped>>

\* the loop runs callbacks: it has not stopped and no callback is stuck
LoopRuns == ~loop_stopped /\ seq_pc # "hung" /\ ready # <<>>

\* the loop runs _start_sequence inside the coroutine of sequence name at pc
InSequence(name, pc) ==
    /\ LoopRuns /\ Head(ready) = SSTask
    /\ start_sequence_next(seq_cur) = "resume"
    /\ seq_cur = name /\ seq_pc = pc

\* the coroutine of the current sequence returns: wait_for is over and
\* _start_sequence goes on to its next sequence.get() without suspending
SeqReturns ==
    /\ seq_cur' = "none" /\ seq_pc' = "none" /\ ss_pc' = "get"
    /\ seqHist' = [seqHist EXCEPT !.running = @ \ {Len(seqHist.started)}]
    /\ UNCHANGED <<ready, sleeping>>

\* the history after the sequence in progress (by) has called
\* activate_next_stage from stage from down to stage to, in a pass that found
\* the altitude below chute_altitude or not (low)
StagesFired(h, by, from, to, low) ==
    [h EXCEPT !.fired = @ \cup {[stage |-> s, by |-> by, low |-> low,
                                 run |-> Len(h.started)] : s \in to..(from - 1)}]

\* the sequence in progress returns after it has fired the stages from..to
SeqReturnsFiring(by, from, to, low) ==
    /\ seq_cur' = "none" /\ seq_pc' = "none" /\ ss_pc' = "get"
    /\ seqHist' = [StagesFired(seqHist, by, from, to, low) EXCEPT
                      !.running = @ \ {Len(seqHist.started)},
                      !.ended = @ \cup {[by |-> by, stage |-> to,
                                         run |-> Len(seqHist.started)]}]
    /\ UNCHANGED <<ready, sleeping>>

\* the sequence in progress fires every stage left and never gives the loop
\* back
SeqHangsFiring(by, from, low) ==
    /\ seq_pc' = "hung"
    /\ seqHist' = StagesFired(seqHist, by, from, 0, low)
    /\ UNCHANGED <<seq_cur, ss_pc, ready, sleeping>>

\* the coroutine of the current sequence suspends at a bare yield
SeqYields(pc) ==
    /\ seq_pc' = pc
    /\ ready' = Yielded(ready, SSTask)
    /\ UNCHANGED <<seq_cur, ss_pc, sleeping, seqHist>>

\* the coroutine of the current sequence suspends in asyncio.sleep
SeqSleeps(pc) ==
    /\ seq_pc' = pc
    /\ ready' = Tail(ready)
    /\ sleeping' = sleeping \cup {SSTask}
    /\ UNCHANGED <<seq_cur, ss_pc, seqHist>>

\* add_sequence(name): a task that will put the sequence on the queue (one
\* deorbit at most, so that there is one warp_to task at most)
AddSequence ==
    /\ ~loop_stopped /\ Len(seqHist.added) < MaxSeqs
    /\ \E name \in SeqNames :
         /\ name = "deorbit" =>
              \A i \in 1..Len(seqHist.added) : seqHist.added[i] # "deorbit"
         /\ ready' = Append(ready, PutTask(name))
         /\ seqHist' = [seqHist EXCEPT !.added = Append(@, name)]
    /\ UNCHANGED <<sleeping, ss_pc, seq_cur, seq_pc, fl_ut>>
    /\ UNCHANGED <<seqWarpVars, seqVesselVars, seqPartVars, seqQueueVars>>
    /\ Frame("seq")

\* run_sequence: loop.create_task(self._start_sequence())
RunSequence ==
    /\ ~loop_stopped /\ ss_pc = "none"
    /\ ss_pc' = "get"
    /\ ready' = Append(ready, SSTask)
    /\ UNCHANGED <<sleeping, seq_cur, seq_pc, fl_ut, seqHist>>
    /\ UNCHANGED <<seqWarpVars, seqVesselVars, seqPartVars, seqQueueVars>>
    /\ Frame("seq")

\* the task of add_sequence runs: sequence.put, which wakes a waiting get
PutStep ==
    /\ LoopRuns /\ Head(ready).task = "put"
    /\ sequence' = Append(sequence, Head(ready).name)
    /\ IF ss_pc = "waiting"
       THEN ss_pc' = "get" /\ ready' = Append(Tail(ready), SSTask)
       ELSE ss_pc' = ss_pc /\ ready' = Tail(ready)
    /\ UNCHANGED <<sleeping, loop_stopped, seq_cur, seq_pc, fl_ut, seqHist>>
    /\ UNCHANGED <<seqWarpVars, seqVesselVars, seqPartVars>>
    /\ Frame("seq")

\* _start_sequence at "seq = yield from self.sequence.get()": it suspends on an
\* empty queue, else it takes the oldest entry and calls its coroutine
StartSequenceGet ==
    /\ LoopRuns /\ Head(ready) = SSTask
    /\ start_sequence_next(seq_cur) = "get"
    /\ IF sequence = <<>>
       THEN /\ ss_pc' = "waiting"
            /\ ready' = Tail(ready)
            /\ UNCHANGED <<sequence, seq_cur, seq_pc, seqHist>>
       ELSE /\ sequence' = Tail(sequence)
            /\ seq_cur' = Head(sequence)
            /\ seq_pc' = "start"
            /\ ss_pc' = "in"
            /\ seqHist' = [seqHist EXCEPT
                              !.started = Append(@, Head(sequence)),
                              !.running = @ \cup {Len(seqHist.started) + 1}]
            /\ UNCHANGED ready
    /\ UNCHANGED <<sleeping, loop_stopped, fl_ut>>
    /\ UNCHANGED <<seqWarpVars, seqVesselVars, seqPartVars>>
    /\ Frame("seq")

\* _pre_launch: no suspension
PreLaunch ==
    /\ InSequence("pre_launch", "start")
    /\ fl_throttle' = FullThrottle
    /\ fl_engaged' = TRUE
    /\ SeqReturns
    /\ UNCHANGED <<fp_stage, autostaging_disabled, fl_ut>>
    /\ UNCHANGED <<seqWarpVars, seqPartVars, seqQueueVars>>
    /\ Frame("seq")

\* _quit: loop.stop(), which takes effect after the callbacks already queued
Quit ==
    /\ InSequence("quit", "start")
    /\ seq_cur' = "none" /\ seq_pc' = "none" /\ ss_pc' = "get"
    /\ seqHist' = [seqHist EXCEPT !.running = @ \ {Len(seqHist.started)}]
    /\ ready' = Append(ready, StopTask)
    /\ UNCHANGED <<sleeping, fl_ut>>
    /\ UNCHANGED <<seqWarpVars, seqVesselVars, seqPartVars, seqQueueVars>>
    /\ Frame("seq")

\* the callback of loop.stop() runs
StopStep ==
    /\ LoopRuns /\ Head(ready) = StopTask
    /\ loop_stopped' = TRUE
    /\ ready' = Tail(ready)
    /\ UNCHANGED <<sleeping, sequence, ss_pc, seq_cur, seq_pc, fl_ut, seqHist>>
    /\ UNCHANGED <<seqWarpVars, seqVesselVars, seqPartVars>>
    /\ Frame("seq")

\* _launcher: to its first yield, then one pass of its loop
Launcher ==
    /\ \/ /\ InSequence("launch", "start")
          /\ SeqYields("loop")
          /\ UNCHANGED <<fl_throttle, fl_engaged>>
       \/ /\ InSequence("launch", "loop")
          /\ \E reached \in BOOLEAN, high \in BOOLEAN :
               /\ fl_throttle' = IF reached THEN 0 ELSE fl_throttle
               /\ IF reached /\ high
                  THEN fl_engaged' = FALSE /\ SeqReturns
                  ELSE fl_engaged' = fl_engaged /\ SeqYields("loop")
    /\ UNCHANGED <<fp_stage, autostaging_disabled, fl_ut>>
    /\ UNCHANGED <<seqWarpVars, seqPartVars, seqQueueVars>>
    /\ Frame("seq")

\* _orbiter: the two node.execute() calls, each a loop of yields that burns
\* and ends with the throttle closed
Orbiter ==
    /\ \/ /\ InSequence("orbit", "start")
          /\ SeqYields("node1")
          /\ UNCHANGED fl_throttle
       \/ /\ InSequence("orbit", "node1")
          /\ \/ fl_throttle' = FullThrottle /\ SeqYields("node1")
             \/ fl_throttle' = 0 /\ SeqYields("node2")
       \/ /\ InSequence("orbit", "node2")
          /\ \/ fl_throttle' = FullThrottle /\ SeqYields("node2")
             \/ fl_throttle' = 0 /\ SeqReturns
    /\ UNCHANGED <<fl_engaged, fp_stage, autostaging_disabled, fl_ut>>
    /\ UNCHANGED <<seqWarpVars, seqPartVars, seqQueueVars>>
    /\ Frame("seq")

\* _lander: to its first yield, then one pass of its loop; below the chute
\* altitude it fires stages until it has fired one with a parachute
Lander ==
    /\ \/ /\ InSequence("land", "start")
          /\ fl_engaged' = TRUE
          /\ SeqYields("loop")
          /\ UNCHANGED fp_stage
       \/ /\ InSequence("land", "loop")
          /\ UNCHANGED fl_engaged
          /\ \E low \in BOOLEAN :
               IF ~low THEN SeqYields("loop") /\ UNCHANGED fp_stage
               ELSE IF stage_above_chute(fp_stage) < 0
               THEN fp_stage' = 0 /\ SeqHangsFiring("land", fp_stage, low)
               ELSE /\ fp_stage' = activate_next_stage(stage_above_chute(fp_stage))
                    /\ SeqReturnsFiring("land", fp_stage, fp_stage', low)
    /\ UNCHANGED <<fl_throttle, autostaging_disabled, fl_ut>>
    /\ UNCHANGED <<seqWarpVars, seqPartVars, seqQueueVars>>
    /\ Frame("seq")

\* _deorbiter, from one suspension to the next
Deorbiter ==
    /\ \/ \* lines 181-185: aim, then wait to turn
          /\ InSequence("deorbit", "start")
          /\ SeqSleeps("turn1")
          /\ UNCHANGED <<seqWarpVars, seqVesselVars>>
       \/ \* lines 186-188: engage, into the burn loop
          /\ InSequence("deorbit", "turn1")
          /\ fl_engaged' = TRUE
          /\ SeqYields("burn")
          /\ UNCHANGED <<seqWarpVars, fl_throttle, fp_stage, autostaging_disabled>>
       \/ \* lines 189-201: one pass of the burn loop; when the periapsis is
          \* reached, the warp_to task is created and the descent loop entered
          /\ InSequence("deorbit", "burn")
          /\ \E above \in BOOLEAN :
               IF above
               THEN /\ fl_throttle' = HalfThrottle
                    /\ SeqYields("burn")
                    /\ UNCHANGED seqWarpVars
               ELSE /\ fl_throttle' = 0
                    /\ \E ttp \in TimesToPeriapsis : warp_target' = fl_ut + ttp
                    /\ warp_pc' = "new"
                    /\ seq_pc' = "descend"
                    /\ ready' = Append(Append(Tail(ready), WarpTask), SSTask)
                    /\ UNCHANGED <<seq_cur, ss_pc, sleeping, seqHist,
                                   rails_warp_factor, physics_warp_factor>>
          /\ UNCHANGED <<fl_engaged, fp_stage, autostaging_disabled>>
       \/ \* lines 202-209: one pass of the descent loop; in the atmosphere,
          \* drop_warp and wait to turn
          /\ InSequence("deorbit", "descend")
          /\ \E below \in BOOLEAN :
               IF ~below
               THEN /\ SeqYields("descend")
                    /\ UNCHANGED <<rails_warp_factor, physics_warp_factor>>
               ELSE /\ rails_warp_factor' = drop_warp.rails
                    /\ physics_warp_factor' = drop_warp.physics
                    /\ seq_pc' = "turn2"
                    /\ ready' = Tail(ready)
                    /\ sleeping' = sleeping \cup {SSTask}
                    /\ seqHist' = [seqHist EXCEPT !.dropped = TRUE]
                    /\ UNCHANGED <<seq_cur, ss_pc>>
          /\ UNCHANGED <<warp_pc, warp_target, seqVesselVars>>
       \/ \* lines 210-212: the deceleration burn starts
          /\ InSequence("deorbit", "turn2")
          /\ fl_throttle' = FullThrottle
          /\ SeqSleeps("decel")
          /\ UNCHANGED <<seqWarpVars, fl_engaged, fp_stage, autostaging_disabled>>
       \/ \* lines 213-214: the deceleration burn ends
          /\ InSequence("deorbit", "decel")
          /\ fl_throttle' = 0
          /\ SeqSleeps("cutoff")
          /\ UNCHANGED <<seqWarpVars, fl_engaged, fp_stage, autostaging_disabled>>
       \/ \* lines 215-231: autostaging off, destage down to the parachutes
          /\ InSequence("deorbit", "cutoff")
          /\ autostaging_disabled' = TRUE
          /\ IF stage_above_chute(fp_stage) < 0
             THEN /\ fp_stage' = 0
                  /\ SeqHangsFiring("deorbit", fp_stage, FALSE)
                  /\ UNCHANGED fl_engaged
             ELSE /\ fp_stage' = stage_above_chute(fp_stage)
                  /\ fl_engaged' = FALSE
                  /\ SeqReturnsFiring("deorbit", fp_stage, fp_stage', FALSE)
          /\ UNCHANGED <<seqWarpVars, fl_throttle>>
    /\ UNCHANGED <<fl_ut, seqPartVars, seqQueueVars>>
    /\ Frame("seq")

\* the warp_to task, from one yield to the next or to its return
WarpStep ==
    /\ LoopRuns /\ Head(ready) = WarpTask
    /\ IF warp_pc = "new"
       THEN /\ warp_pc' = "yield"
            /\ ready' = Yielded(ready, WarpTask)
            /\ UNCHANGED <<rails_warp_factor, physics_warp_factor>>
       ELSE \E can_warp \in BOOLEAN, maximum \in MaxRailsFactors :
              IF warp_to_finished(fl_ut, warp_target)
              THEN /\ rails_warp_factor' = drop_warp.rails
                   /\ physics_warp_factor' = drop_warp.physics
                   /\ warp_pc' = "done"
                   /\ ready' = Tail(ready)
              ELSE /\ rails_warp_factor' =
                        warp_to_factor(rails_warp_factor, can_warp, maximum)
                   /\ ready' = Yielded(ready, WarpTask)
                   /\ UNCHANGED <<warp_pc, physics_warp_factor>>
    /\ UNCHANGED <<sleeping, ss_pc, seq_cur, seq_pc, warp_target, fl_ut, seqHist>>
    /\ UNCHANGED <<seqVesselVars, seqPartVars, seqQueueVars>>
    /\ Frame("seq")

\* the timer of an asyncio.sleep fires: the task is ready again
TimerFires ==
    /\ ~loop_stopped
    /\ \E t \in sleeping :
         /\ sleeping' = sleeping \ {t}
         /\ ready' = Append(ready, t)
    /\ UNCHANGED <<ss_pc, seq_cur, seq_pc, fl_ut, seqHist>>
    /\ UNCHANGED <<seqWarpVars, seqVesselVars, seqPartVars, seqQueueVars>>
    /\ Frame("seq")

\* game time passes
UtPasses ==
    /\ fl_ut < MaxFlightUt
    /\ fl_ut' = fl_ut + 1
    /\ UNCHANGED <<ready, sleeping, ss_pc, seq_cur, seq_pc, seqHist>>
    /\ UNCHANGED <<seqWarpVars, seqVesselVars, seqPartVars, seqQueueVars>>
    /\ Frame("seq")

NextSeq ==
    \/ AddSequence
    \/ RunSequence
    \/ PutStep
    \/ StartSequenceGet
    \/ PreLaunch
    \/ Quit
    \/ StopStep
    \/ Launcher
    \/ Orbiter
    \/ Lander
    \/ Deorbiter
    \/ WarpStep
    \/ TimerFires
    \/ UtPasses

SpecSeq == InitFor("seq") /\ [][NextSeq]_vars

\* C21: once _deorbiter has dropped the warp on entering the atmosphere, the
\* rails and physics warp factors are 0 for as long as the deorbit sequence
\* is in progress (the turn wait, the deceleration burn and after).
C21_WarpStaysDropped ==
    seqHist.dropped /\ seq_cur = "deorbit" =>
        rails_warp_factor = 0 /\ physics_warp_factor = 0

C40_ChuteFiredOnlyByLander ==
    /\ \A f \in seqHist.fired :
         /\ f.stage \in chuteStages => f.by = "land"
         /\ f.by = "land" => f.low
    /\ \A e \in seqHist.ended :
         /\ e.by = "deorbit" => (e.stage - 1) \in chuteStages
         /\ e.by = "land" =>
              /\ e.stage \in chuteStages
              /\ [stage |-> e.stage, by |-> "land", low |-> TRUE,
                  run |-> e.run] \in seqHist.fired
              /\ \A f \in seqHist.fired :
                   f.run = e.run /\ f.stage # e.stage =>
                       f.stage > e.stage /\ f.stage \notin chuteStages

\* deorbit then land, both over: _deorbiter destaged down to the stage above
\* the parachutes and _lander fired the parachute stage
C40_Witness ==
    /\ seqHist.added = <<"deorbit", "land">>
    /\ seq_cur = "none" /\ chuteStages = {0} /\ fp_stage = 0
    /\ seqHist.ended = {[by |-> "deorbit", stage |-> 1, run |-> 1],
                        [by |-> "land", stage |-> 0, run |-> 2]}
    /\ seqHist.fired = {[stage |-> 2, by |-> "deorbit", low |-> FALSE, run |-> 1],
                        [stage |-> 1, by |-> "deorbit", low |-> FALSE, run |-> 1],
                        [stage |-> 0, by |-> "land", low |-> TRUE, run |-> 2]}

-----------------------------------------------------------------------------
\* C23: a warp request is made only by a call whose autowarp argument is true,
\* and suicide_burn called with autowarp false makes no warp request in
\* either of its burn passes.
C23_WarpOnlyIfAutowarp ==
    /\ sbHist.warped => sb_autowarp
    /\ sb_entry = "suicide_burn" /\ ~sb_autowarp => sb_warps = 0

-----------------------------------------------------------------------------
(* gravturn(conn, launch_params), called at any altitude *)

\* gravturn at mean_altitude alt
Gravturn ==
    /\ \E alt \in 0..MaxTurnAlt :
         \* the loop of ascent runs: while apoapsis_way_low(v, orbit_alt)
         /\ \E apo \in {alt, OrbitAlt - 6} :
              alt <= apo /\ apoapsis_way_low(apo, OrbitAlt)
         /\ gt_alt' = alt
         /\ gt_pitch' = gravturn_scaled(alt)
    /\ gt_prev' = [alt |-> gt_alt, pitch |-> gt_pitch]
    /\ Frame("gt")

NextGT == Gravturn

SpecGT == InitFor("gt") /\ [][NextGT]_vars

\* C24: the pitch target is 90 degrees at progress 0, 0 degrees at progress 1,
\* and of two calls with progress in [0, 1] the one at the higher progress
\* sets the lower pitch.
C24_PitchEasesOut ==
    /\ gt_alt = 0 => gt_pitch = 90 * GravTurnFinish * GravTurnFinish
    /\ gt_alt = GravTurnFinish => gt_pitch = 0
    /\ gt_prev.alt < gt_alt /\ gt_alt <= GravTurnFinish => gt_pitch < gt_prev.pitch
    /\ gt_alt < gt_prev.alt /\ gt_prev.alt <= GravTurnFinish =>
         gt_prev.pitch < gt_pitch

\* gravturn was called just below grav_turn_finish and then at it
C24_Witness ==
    /\ gt_prev.alt = GravTurnFinish - 1
    /\ gt_alt = GravTurnFinish
    /\ gt_pitch = 0 /\ gt_prev.pitch > 0

\* C33: at every altitude >= 0 at which the gravity-turn loop calls gravturn,
\* those above grav_turn_finish included, the pitch target lies in [0, 90]
\* degrees, and of two successive calls the one at the higher altitude does
\* not set the higher pitch.
C33_PitchClampedAndFalling ==
    /\ gt_pitch >= 0
    /\ gt_pitch <= 90 * GravTurnFinish * GravTurnFinish
    /\ gt_prev.alt <= gt_alt => gt_pitch <= gt_prev.pitch

-----------------------------------------------------------------------------
C26_DtSincePreviousUpdate ==
    pidHist.op = "update" =>
        pid.D.den = (IF pidHist.upd - pidHist.prevUpd = 0 THEN 1
                     ELSE pidHist.upd - pidHist.prevUpd)

\* C27, as stated: after setpoint(s), while every update() is given s, the
\* integral is 0 and every update() returns 0, all three terms being 0.
C27_SteadyOutputZero ==
    pidHist.op = "update" /\ pidHist.steady >= 1 =>
        /\ pid.I = 0 /\ pid.P = 0 /\ pid.D.num = 0
        /\ pidHist.out.num = 0

\* C27, amended: after setpoint(s), while every update() is given s, the
\* proportional term and the integral are 0; the derivative of the first
\* such update() is (s - the measurement stored before) / dt and its output
\* -Kd times that; from the second on the derivative and the output are 0.
C27_SteadyAfterFirstUpdate ==
    pidHist.op = "update" /\ pidHist.steady >= 1 =>
        /\ pid.I = 0 /\ pid.P = 0
        /\ pid.D.num = pid.SetPoint - pidHist.prevMeasure
        /\ pidHist.out.num = 0 - Kd * pid.D.num
        /\ pidHist.steady >= 2 => pid.D.num = 0 /\ pidHist.out.num = 0

\* the second update() at a non-zero setpoint has returned
C27_Witness ==
    /\ pidHist.op = "update" /\ pidHist.steady = 2
    /\ pid.SetPoint # 0 /\ pidHist.out.num = 0

-----------------------------------------------------------------------------
(* dock(conn, speed_limit) *)

\* dock, from the call to the loop: the autopilot is set up, the PIDs created
DockCall ==
    /\ dk_pc = "idle"
    /\ dk_pc' = "loop"
    /\ UNCHANGED <<dk_speed_limit, dk_proceed, dk_offset, dk_setpoints, dk_pids,
                   dk_control, dk_clock, dkHist>>
    /\ Frame("dock")

\* the three PIDs after one pass: setpoint(setpoints[a]), update(velocity[a])
DockPIDs(pids, setpoints, velocity, now) ==
    [a \in Axes |-> PIDUpdated(PIDSetpointed(pids[a], setpoints[a]), velocity[a], now)]

\* one pass of the loop of dock
DockTick ==
    /\ dk_pc = "loop"
    /\ \E offset \in DockOffsets :
         \E check \in {proceedCheck(offset)} :
         \E setpoints \in {getSetpoints(offset, proceed_next(dk_proceed, check),
                                         dk_speed_limit)} :
         \E velocity \in DockVelocities, now \in dk_clock..MaxClock :
         \E pids \in {DockPIDs(dk_pids, setpoints, velocity, now)} :
            /\ dk_offset' = offset
            /\ dk_proceed' = proceed_next(dk_proceed, check)
            /\ dk_setpoints' = setpoints
            /\ dk_pids' = pids
            /\ dk_control' = [a \in Axes |-> dock_control(pids[a], DockGains[a])]
            /\ dk_clock' = now
            /\ dkHist' = [ticked |-> TRUE, check |-> check, wasProceed |-> dk_proceed]
    /\ UNCHANGED <<dk_pc, dk_speed_limit>>
    /\ Frame("dock")

NextDock == DockCall \/ DockTick

SpecDock == InitFor("dock") /\ [][NextDock]_vars

\* C28: proceedCheck returns true exactly on an offset with |right| and |up|
\* below 0.1 m and |10 - forward| below 0.1 m, so that dock raises its proceed
\* flag only in a pass that read such an offset.
C28_ProceedOnlyWhenLinedUp ==
    dkHist.ticked =>
        /\ dkHist.check <=>
              /\ Fabs(dk_offset.right) < LineUpTolerance
              /\ Fabs(dk_offset.up) < LineUpTolerance
              /\ Fabs(Standoff - dk_offset.forward) < LineUpTolerance
        /\ dk_proceed /\ ~dkHist.wasProceed =>
              /\ Fabs(dk_offset.right) < LineUpTolerance
              /\ Fabs(dk_offset.up) < LineUpTolerance

\* C37: the proceed flag of dock is latched: after a pass in which
\* proceedCheck returned true, or that found the flag set, the flag is set and
\* the forward setpoint is -0.2, whatever the offsets of that pass; the loop
\* goes on.
C37_ProceedLatched ==
    (dkHist.ticked /\ (dkHist.wasProceed \/ dkHist.check)) =>
        /\ dk_proceed
        /\ dk_setpoints.forward = 0 - ProceedSpeed
        /\ dk_pc = "loop"

\* a pass after the line-up that read an offset outside the tolerance
C37_Witness ==
    /\ dkHist.ticked /\ dkHist.wasProceed /\ ~dkHist.check
    /\ Fabs(Standoff - dk_offset.forward) >= LineUpTolerance
    /\ dk_proceed
    /\ dk_setpoints.forward = 0 - ProceedSpeed

\* x limited to [-limit, limit]
ClampTo(x, limit) == IF x > limit THEN limit ELSE IF x < 0 - limit THEN 0 - limit ELSE x

\* C38: in dock, which calls setpoint() before update() in every pass, the
\* integral of each axis PID after a pass is that pass's error, setpoint minus
\* measured velocity, limited to [-ClampI, ClampI], whatever the passes before.
C38_IntegralIsLastError ==
    dkHist.ticked =>
        \A a \in Axes :
            dk_pids[a].I =
                ClampTo(dk_setpoints[a] - dk_pids[a].LastMeasure, dk_pids[a].ClampI)

\* a later pass of dock with an error inside the clamp on the up axis and an
\* error beyond it on the right axis
C38_Witness ==
    /\ dkHist.ticked /\ dkHist.wasProceed
    /\ dk_pids.up.I # 0
    /\ dk_pids.up.I < DockClampI /\ dk_pids.up.I > 0 - DockClampI
    /\ dk_setpoints.right - dk_pids.right.LastMeasure > DockClampI
    /\ dk_pids.right.I = DockClampI

\* the same in final_descent: the integral after a pass is that pass's error,
\* limited to the clamp
C38_FinalDescentIntegral ==
    (fd_pc = "loop" /\ fdHist.tests > 0) =>
        fd_pid.I = ClampTo(fd_pid.SetPoint - fd_pid.LastMeasure, fd_pid.ClampI)

\* C29: with speed_limit >= 0, the up setpoint is offset.up limited to
\* [-speed_limit, speed_limit], the right setpoint minus offset.right so
\* limited, the forward setpoint 10 - offset.forward so limited while lining
\* up, each of magnitude at most speed_limit, and -0.2 when proceed is true.
C29_SetpointsClamped ==
    dkHist.ticked /\ dk_speed_limit >= 0 =>
        /\ dk_setpoints.up = ClampTo(dk_offset.up, dk_speed_limit)
        /\ dk_setpoints.right = 0 - ClampTo(dk_offset.right, dk_speed_limit)
        /\ Fabs(dk_setpoints.up) <= dk_speed_limit
        /\ Fabs(dk_setpoints.right) <= dk_speed_limit
        /\ ~dk_proceed =>
              /\ dk_setpoints.forward =
                    ClampTo(Standoff - dk_offset.forward, dk_speed_limit)
              /\ Fabs(dk_setpoints.forward) <= dk_speed_limit
        /\ dk_proceed => dk_setpoints.forward = 0 - ProceedSpeed

\* a line-up pass far off on every axis has its three setpoints at the limit
C29_Witness ==
    /\ dkHist.ticked /\ ~dk_proceed /\ dk_speed_limit > 0
    /\ dk_offset.up > dk_speed_limit /\ dk_setpoints.up = dk_speed_limit
    /\ dk_offset.right < 0 - dk_speed_limit /\ dk_setpoints.right = dk_speed_limit
    /\ Standoff - dk_offset.forward > dk_speed_limit
    /\ dk_setpoints.forward = dk_speed_limit

-----------------------------------------------------------------------------
(* time_transfer(vessel, target, ut, phase_angle) *)

\* one pass of the coarse loop; when it breaks, ut -= 10
TT_CoarsePass ==
    /\ tt_pc = "coarse"
    /\ tt_err' = angle_error(tt_in, tt_ut)
    /\ IF tt_err' <= CoarseTolerance
       THEN /\ tt_pc' = "fine"
            /\ tt_ut' = UtPlus(tt_ut, 0 - CoarseStep)
            /\ tt_elapsed' = tt_elapsed - CoarseStep
       ELSE /\ tt_pc' = "coarse"
            /\ tt_ut' = UtPlus(tt_ut, CoarseStep)
            /\ tt_elapsed' = ElapsedPlus(tt_elapsed, CoarseStep)
    /\ UNCHANGED tt_in
    /\ Frame("tt")

\* one pass of the fine loop; when it breaks, return ut
TT_FinePass ==
    /\ tt_pc = "fine"
    /\ tt_err' = angle_error(tt_in, tt_ut)
    /\ IF tt_err' <= FineTolerance
       THEN /\ tt_pc' = "returned"
            /\ UNCHANGED <<tt_ut, tt_elapsed>>
       ELSE /\ tt_pc' = "fine"
            /\ tt_ut' = UtPlus(tt_ut, FineStep)
            /\ tt_elapsed' = ElapsedPlus(tt_elapsed, FineStep)
    /\ UNCHANGED tt_in
    /\ Frame("tt")

NextTT == TT_CoarsePass \/ TT_FinePass

SpecTT == InitFor("tt") /\ [][NextTT]_vars

\* time_transfer keeps running: each loop makes its next pass
SpecTTLive == SpecTT /\ WF_vars(NextTT)

\* C30: time_transfer returns, for every pair of orbits with different
\* angular rates.
C30_SearchReturns == <>(tt_pc = "returned")

\* C35: the time time_transfer returns is not before the ut it was called
\* with, and no time of the 1-second grid from that ut up to the returned
\* time has an angular error < 0.001 rad.
C35_ReturnsNextTime ==
    tt_pc = "returned" =>
        /\ tt_elapsed >= 0
        /\ \A k \in 0..(tt_elapsed - 1) :
               angle_error(tt_in, k % SearchPeriod) > FineTolerance

-----------------------------------------------------------------------------
(* main of rendezvous.py: match_planes, hohmann, circularize_at_intercept,  *)
(* get_closer                                                                *)

\* a phase plans a node and has execute_next_node burn it
RVPlanAndExecute(name) ==
    /\ rv_nodes' = execute_next_node(add_node(rv_nodes, name))
    /\ rvHist' = [planned |-> Append(rvHist.planned, name),
                  executed |-> IF Len(execute_next_node(add_node(rv_nodes, name)))
                                    <= Len(rv_nodes)
                               THEN Append(rvHist.executed, Head(add_node(rv_nodes, name)))
                               ELSE rvHist.executed]

\* match_planes: returns at once when the planes are within .25 degree, else
\* plans the plane change and executes it; main goes on to hohmann, which
\* calls time_transfer
RV_MatchPlanes ==
    /\ rv_pc = "match_planes"
    /\ \E aligned \in BOOLEAN :
         IF aligned THEN UNCHANGED <<rv_nodes, rvHist>>
         ELSE RVPlanAndExecute("plane_change")
    /\ rv_pc' = "hohmann"
    /\ tt_pc' = "coarse"
    /\ UNCHANGED <<tt_in, tt_ut, tt_elapsed, tt_err>>
    /\ Frame("rv")

\* hohmann, once time_transfer has returned: hohmann_transfer plans the node
\* and execute_next_node burns it
RV_Hohmann ==
    /\ rv_pc = "hohmann"
    /\ tt_pc = "returned"
    /\ RVPlanAndExecute("hohmann_transfer")
    /\ rv_pc' = "circularize_at_intercept"
    /\ UNCHANGED varsTT
    /\ Frame("rv")

\* circularize_at_intercept: circularize_at_apoapsis plans the node; the
\* function prints and returns
RV_CircularizeAtIntercept ==
    /\ rv_pc = "circularize_at_intercept"
    /\ rv_nodes' = add_node(rv_nodes, "circularize")
    /\ rvHist' = [rvHist EXCEPT !.planned = Append(@, "circularize")]
    /\ rv_pc' = "get_closer"
    /\ UNCHANGED varsTT
    /\ Frame("rv")

NextRV ==
    \/ RV_MatchPlanes
    \/ TT_CoarsePass
    \/ TT_FinePass
    \/ RV_Hohmann
    \/ RV_CircularizeAtIntercept

SpecRV == InitFor("rv") /\ [][NextRV]_vars

\* C32: every node the rendezvous sequence plans is executed and removed
\* before the next phase starts: when get_closer begins the vessel's node list
\* is empty and the plane change (if planned), the Hohmann transfer and the
\* circularization have each been executed.
C32_NodesExecutedBeforeGetCloser ==
    /\ rv_pc \in {"hohmann", "circularize_at_intercept", "get_closer"} =>
           rv_nodes = <<>> /\ rvHist.executed = rvHist.planned
    /\ rv_pc = "get_closer" =>
           /\ Len(rvHist.planned) >= 2
           /\ rvHist.planned[Len(rvHist.planned)] = "circularize"

-----------------------------------------------------------------------------
(* PynetHandler actions *)

\* Pynet.send_async on the main thread: self.requests.put(msg)
PN_Put ==
    /\ Len(pnHist.sent) < MaxRequests
    /\ \E req \in Requests :
         /\ pn_requests' = Append(pn_requests, req)
         /\ pnHist' = [pnHist EXCEPT !.sent = Append(@, req)]
    /\ UNCHANGED <<pn_replies, pn_fp, pn_pc, pn_loop, pn_plan, pn_tasks>>
    /\ Frame("pn")

\* request_handler takes a request: dispatch, the method's effects, the reply,
\* and on "disconnect" loop.stop() and the return.  (On an empty queue it
\* yields and nothing changes.)  After stop() the loop still runs the callbacks
\* that are ready, so one more step of request_handler is possible.
PN_HandlerStep ==
    /\ pn_pc = "running"
    /\ pn_loop \in {"running", "stopping"}
    /\ pn_requests # <<>>
    /\ LET req == Head(pn_requests) IN
       \E fails \in BOOLEAN, on \in BOOLEAN :
         LET r == dispatch(req, pn_fp, fails) IN
         /\ pn_requests' = Tail(pn_requests)
         /\ pnHist' = [pnHist EXCEPT
                          !.served = Append(@, req),
                          !.raised = IF method_raises(req, pn_fp, fails)
                                     THEN @ \cup {Len(pnHist.served) + 1} ELSE @]
         /\ pn_fp' = (pn_fp \/ (req = "connect" /\ r = "result"))
         /\ pn_plan' = IF req = "plan" /\ r = "result" THEN "flying" ELSE pn_plan
         /\ pn_tasks' =
               IF r # "result" THEN pn_tasks
               ELSE IF req = "maneuver" THEN pn_tasks \cup {"maneuver"}
               ELSE IF req = "orbital"
                    THEN (IF on THEN pn_tasks \cup {"orbital"}
                          ELSE pn_tasks \ {"orbital"})
               ELSE pn_tasks
         /\ IF r = "raised"
            THEN /\ pn_pc' = "crashed"
                 /\ pn_loop' = IF pn_loop = "stopping" THEN "last" ELSE pn_loop
                 /\ UNCHANGED pn_replies
            ELSE /\ pn_replies' =
                       (IF req = "other"
                        THEN Append(pn_replies, Reply("message", "result", "default_method"))
                        ELSE pn_replies) \o <<Reply(req, r, "request_handler")>>
                 /\ pn_pc' = IF req = "disconnect" THEN "returned" ELSE "running"
                 /\ pn_loop' = IF pn_loop = "stopping" THEN "last"
                               ELSE IF req = "disconnect" THEN "stopping"
                               ELSE pn_loop
    /\ Frame("pn")

\* the "quit" sequence D_plan appended runs: FlightPlan._quit calls loop.stop()
PN_QuitSequence ==
    /\ pn_plan = "flying"
    /\ pn_loop = "running"
    /\ pn_plan' = "done"
    /\ pn_loop' = "stopping"
    /\ pnHist' = [pnHist EXCEPT !.quit = TRUE]
    /\ UNCHANGED <<pn_requests, pn_replies, pn_fp, pn_pc, pn_tasks>>
    /\ Frame("pn")

\* exception_handler, called for a task that ended with an exception nobody
\* retrieved: the debug message, then loop.stop()
ExceptionHandled ==
    /\ pn_replies' = Append(pn_replies, Reply("debug", "result", "exception_handler"))
    /\ pn_loop' = "stopping"
    /\ pnHist' = [pnHist EXCEPT !.task_failed = TRUE]

\* send_orbital_params wakes from its sleep: it puts a notification, or ends
\* with an AttributeError when self.fp is None
PN_OrbitalTick ==
    /\ "orbital" \in pn_tasks
    /\ pn_loop = "running"
    /\ IF pn_fp
       THEN /\ Len(pn_replies) < MaxReplies
            /\ pn_replies' =
                  Append(pn_replies, Reply("orbital_notify", "result", "send_orbital_params"))
            /\ UNCHANGED <<pn_tasks, pn_loop, pnHist>>
       ELSE /\ pn_tasks' = pn_tasks \ {"orbital"}
            /\ ExceptionHandled
    /\ UNCHANGED <<pn_requests, pn_fp, pn_pc, pn_plan>>
    /\ Frame("pn")

\* the node.execute() task D_maneuver created ends, normally or with an
\* exception
PN_ManeuverEnds ==
    /\ "maneuver" \in pn_tasks
    /\ pn_loop = "running"
    /\ pn_tasks' = pn_tasks \ {"maneuver"}
    /\ \/ UNCHANGED <<pn_replies, pn_loop, pnHist>>
       \/ ExceptionHandled
    /\ UNCHANGED <<pn_requests, pn_fp, pn_pc, pn_plan>>
    /\ Frame("pn")

\* run: run_until_complete raises RuntimeError once the loop has stopped, and
\* self.disconnect() closes the flight plan and puts a "disconnect" message
PN_LoopStops ==
    /\ pn_loop \in {"stopping", "last"}
    /\ pn_loop' = "stopped"
    /\ pn_fp' = FALSE
    /\ pn_replies' = Append(pn_replies, Reply("disconnect", "none", "run"))
    /\ UNCHANGED <<pn_requests, pn_pc, pn_plan, pn_tasks, pnHist>>
    /\ Frame("pn")

NextPN ==
    \/ PN_Put
    \/ PN_HandlerStep
    \/ PN_QuitSequence
    \/ PN_OrbitalTick
    \/ PN_ManeuverEnds
    \/ PN_LoopStops

SpecPN == InitFor("pn") /\ [][NextPN]_vars

\* the replies request_handler put, in order
RECURSIVE HandlerReplies(_)
HandlerReplies(q) ==
    IF q = <<>> THEN <<>>
    ELSE IF Head(q).by = "request_handler"
         THEN <<Head(q)>> \o HandlerReplies(Tail(q))
         ELSE HandlerReplies(Tail(q))

\* a method that raises gives an 'error' result, request_handler puts exactly
\* one reply per request it served, and requests are served in the order put
C36_ErrorsSurfacedInOrder ==
    /\ pn_pc # "crashed"
    /\ Len(HandlerReplies(pn_replies)) = Len(pnHist.served)
    /\ \A i \in 1..Len(pnHist.served) :
         /\ HandlerReplies(pn_replies)[i].req = pnHist.served[i]
         /\ HandlerReplies(pn_replies)[i].kind =
               IF i \in pnHist.raised THEN "error" ELSE "result"
    /\ pnHist.sent = pnHist.served \o pn_requests

\* C36 as stated: a method that raises gives an 'error' result and exactly one
\* reply, later requests are served in FIFO order, and request handling stops
\* only after a 'disconnect' request.
C36_StopsOnlyAfterDisconnect ==
    /\ C36_ErrorsSurfacedInOrder
    /\ (pn_pc # "running" \/ pn_loop # "running") =>
           /\ pnHist.served # <<>>
           /\ pnHist.served[Len(pnHist.served)] = "disconnect"

\* C36, amended: a method that raises gives an 'error' result and exactly one
\* reply, and later requests are served in FIFO order; request_handler itself
\* returns only after a 'disconnect' request, and the event loop under it is
\* stopped, apart from that, only by the quit sequence of a flight plan or by
\* the exception handler of the loop.
C36_HandlerReturnsOnlyAfterDisconnect ==
    /\ C36_ErrorsSurfacedInOrder
    /\ pn_pc # "running" =>
           /\ pnHist.served # <<>>
           /\ pnHist.served[Len(pnHist.served)] = "disconnect"
    /\ pn_loop # "running" =>
           \/ pn_pc = "returned"
           \/ pnHist.quit
           \/ pnHist.task_failed

\* a request whose method raised was answered and a later request was served
\* after it
C36_Witness ==
    /\ pnHist.served = <<"plan", "connect", "plan">>
    /\ pnHist.raised = {1}
    /\ pn_pc = "running"
    /\ pn_loop = "running"

=============================================================================
